---- MODULE Spec2Model ----
(***************************************************************************)
(* A model of the spoditor pod-mutation engine: the ordinal qualifier      *)
(* matcher, the StatefulSet identity extractor, the two mutation handlers  *)
(* (host-port, mount-volume) and the admission pipeline that runs them.    *)
(*                                                                         *)
(* Strings that the code scans (qualifiers, labels, annotation keys) are   *)
(* sequences of one-character strings.  Strings that the code only         *)
(* compares or concatenates (container, port, volume and variable names)   *)
(* are TLA+ strings.                                                       *)
(***************************************************************************)
EXTENDS Integers, Sequences, FiniteSets, TLC

VARIABLES
    \* the ordinal qualifier matcher, called on its own
    qOrdinal, qQualifier, qResult, qPc,
    \* the identity extractor, called on its own
    iLabels, iResult, iPc,
    \* a handler's Mutate, called on its own: the pod spec, the pod spec
    \* before the call, the ordinal, the configuration, the returned error,
    \* the configuration as it was parsed and the number of calls made on
    \* the pod spec
    hHandler, hSpec, hPre, hOrdinal, hCfg, hErr, hPc, hCfgPre, hCalls,
    \* the admission pipeline: the mutator (its identifier and handlers), the
    \* pod under admission, the pod spec as it arrived, and the position of
    \* the call of Default with its locals and the calls made so far
    mSsPodId, mHandlers, pLabels, pAnnotations, pSpec, pOriginal,
    \* the requests the mutator serves at the same time, each with its pod
    \* and the locals of its call
    requests,
    \* the calls of Register that have read r.handlers and not yet written it
    registering,
    \* the slice the range clause of the first Handle read
    pRange,
    pPc, pOrdinal, pCollected, pIndex, pConfig, pErr, pCalls,
    \* the admission response of a pipeline that builds one itself
    pResponse,
    \* the annotation collector, called on its own
    cAnnotations, cResult, cPc,
    \* a handler's parser, called on its own
    rHandler, rAnnotations, rResult, rPc

qualVars == <<qOrdinal, qQualifier, qResult, qPc>>
identVars == <<iLabels, iResult, iPc>>
handlerVars == <<hHandler, hSpec, hPre, hOrdinal, hCfg, hErr, hPc, hCfgPre, hCalls>>
mutatorVars == <<mSsPodId, mHandlers, requests, registering, pRange>>
podVars == <<pLabels, pAnnotations, pSpec, pOriginal>>
callVars == <<pPc, pOrdinal, pCollected, pIndex, pConfig, pErr, pCalls>>
pipeVars == <<mutatorVars, podVars, callVars, pResponse>>
collectVars == <<cAnnotations, cResult, cPc>>
parseVars == <<rHandler, rAnnotations, rResult, rPc>>
annotVars == <<collectVars, parseVars>>
vars == <<qualVars, identVars, handlerVars, pipeVars, annotVars>>

(***************************************************************************)
(* Bounds of the model                                                     *)
(***************************************************************************)
\* ordinals range over 0..MaxOrdinal
MaxOrdinal == 2
\* qualifier strings have at most MaxQualLen characters
MaxQualLen == 4
\* pod-name label values have at most MaxLabelLen characters
MaxLabelLen == 5
\* a host-port configuration declares at most MaxCfgPorts ports per container
MaxCfgPorts == 2
\* a mount-volume configuration declares at most MaxCfgVolumes volumes
MaxCfgVolumes == 2
\* a pod under admission carries at most MaxAnnotations annotations
MaxAnnotations == 2
\* the longest remainder of an annotation key after the prefix
MaxKeyLen == 3
\* a handler's Mutate is called at most MaxCalls times on one pod spec
MaxCalls == 2
\* the mutator serves at most MaxRequests requests at the same time
MaxRequests == 2
\* Register is called at most MaxHandlers times with a handler
MaxHandlers == 2

(***************************************************************************)
(* Strings as sequences of characters                                      *)
(***************************************************************************)
DigitChars == <<"0", "1", "2", "3", "4", "5", "6", "7", "8", "9">>

IsDigit(c) == \E d \in 1..10 : DigitChars[d] = c

DigitValue(c) == (CHOOSE d \in 1..10 : DigitChars[d] = c) - 1

\* every string over the alphabet chars of length at most n
StringsUpTo(chars, n) == UNION {[1..k -> chars] : k \in 0..n}

\* strings.LastIndex(s, c) for a one-character c, 1-based; 0 when absent (Go: -1)
LastIndex(s, c) ==
    IF \E i \in 1..Len(s) : s[i] = c
    THEN CHOOSE i \in 1..Len(s) : s[i] = c /\ \A j \in (i + 1)..Len(s) : s[j] # c
    ELSE 0

\* the first index of character c in s, 0 when absent
IndexOf(s, c) ==
    IF \E i \in 1..Len(s) : s[i] = c
    THEN CHOOSE i \in 1..Len(s) : s[i] = c /\ \A j \in 1..(i - 1) : s[j] # c
    ELSE 0

\* \d+ anchored at both ends
AllDigits(s) == Len(s) > 0 /\ \A i \in 1..Len(s) : IsDigit(s[i])

\* strconv.Atoi: the value and whether parsing succeeded.  An optional
\* sign, then the characters from left to right: ParseUint stops with a
\* range error at the digit with which the number leaves 64 unsigned bits,
\* and with a syntax error (value 0) at a character that is no digit,
\* whichever comes first; ParseInt then clamps to the range of int.
\* Above(d, limit): the digits d denote more than the digits limit, by more
\* digits after the leading zeros or a larger digit at the first difference.
Atoi(s) ==
    LET MaxUint64Digits ==
            <<"1", "8", "4", "4", "6", "7", "4", "4", "0", "7", "3", "7", "0",
              "9", "5", "5", "1", "6", "1", "5">>
        MaxInt64Digits ==
            <<"9", "2", "2", "3", "3", "7", "2", "0", "3", "6", "8", "5", "4",
              "7", "7", "5", "8", "0", "7">>
        MinInt64Digits ==
            <<"9", "2", "2", "3", "3", "7", "2", "0", "3", "6", "8", "5", "4",
              "7", "7", "5", "8", "0", "8">>
        RECURSIVE Value(_)
        Value(d) ==
            IF Len(d) = 0 THEN 0
            ELSE 10 * Value(SubSeq(d, 1, Len(d) - 1)) + DigitValue(d[Len(d)])
        RECURSIVE Above(_, _)
        Above(d, limit) ==
            IF Len(d) > 0 /\ d[1] = "0" THEN Above(Tail(d), limit)
            ELSE IF Len(d) # Len(limit) THEN Len(d) > Len(limit)
            ELSE \E i \in 1..Len(d) :
                    /\ DigitValue(d[i]) > DigitValue(limit[i])
                    /\ \A j \in 1..(i - 1) : d[j] = limit[j]
        signed == Len(s) > 0 /\ s[1] \in {"+", "-"}
        neg    == signed /\ s[1] = "-"
        body   == IF signed THEN Tail(s) ELSE s
        \* the digits before the first character that is no digit
        stop   == IF \E i \in 1..Len(body) : ~IsDigit(body[i])
                  THEN CHOOSE i \in 1..Len(body) :
                        ~IsDigit(body[i]) /\ \A j \in 1..(i - 1) : IsDigit(body[j])
                  ELSE Len(body) + 1
        digits == SubSeq(body, 1, stop - 1)
    IN  IF Len(body) = 0 THEN [val |-> 0, ok |-> FALSE]
        ELSE IF Above(digits, MaxUint64Digits)
        THEN [val |-> IF neg THEN 0 - Value(MinInt64Digits) ELSE Value(MaxInt64Digits),
              ok  |-> FALSE]
        ELSE IF stop <= Len(body) THEN [val |-> 0, ok |-> FALSE]
        ELSE IF neg
        THEN IF Above(body, MinInt64Digits)
             THEN [val |-> 0 - Value(MinInt64Digits), ok |-> FALSE]
             ELSE [val |-> 0 - Value(body), ok |-> TRUE]
        ELSE IF Above(body, MaxInt64Digits)
             THEN [val |-> Value(MaxInt64Digits), ok |-> FALSE]
             ELSE [val |-> Value(body), ok |-> TRUE]

\* strconv.Itoa, as a TLA+ string
RECURSIVE ItoaNat(_)
ItoaNat(n) ==
    IF n < 10 THEN DigitChars[n + 1]
    ELSE ItoaNat(n \div 10) \o DigitChars[(n % 10) + 1]

Itoa(n) == IF n < 0 THEN "-" \o ItoaNat(0 - n) ELSE ItoaNat(n)

(***************************************************************************)
(* The ordinal qualifier matcher (annotation.CommonPodQualifier)           *)
(***************************************************************************)
\* ^\d+-\d+$
rangeRegex(s) ==
    \E i \in 2..(Len(s) - 1) :
        /\ s[i] = "-"
        /\ AllDigits(SubSeq(s, 1, i - 1))
        /\ AllDigits(SubSeq(s, i + 1, Len(s)))

\* ^\d+$
exactNumberRegex(s) == AllDigits(s)

\* ^\d+-$
lowerBoundRegex(s) ==
    Len(s) >= 2 /\ s[Len(s)] = "-" /\ AllDigits(SubSeq(s, 1, Len(s) - 1))

\* ^-\d+$
upperBoundRegex(s) ==
    Len(s) >= 2 /\ s[1] = "-" /\ AllDigits(Tail(s))

\* strings.TrimSuffix(s, "-")
TrimSuffixDash(s) ==
    IF Len(s) > 0 /\ s[Len(s)] = "-" THEN SubSeq(s, 1, Len(s) - 1) ELSE s

\* strings.TrimPrefix(s, "-")
TrimPrefixDash(s) ==
    IF Len(s) > 0 /\ s[1] = "-" THEN Tail(s) ELSE s

\* the first two fields of strings.Split(s, "-") for a string with a "-"
SplitDash(s) ==
    LET i    == IndexOf(s, "-")
        rest == SubSeq(s, i + 1, Len(s))
        j    == IndexOf(rest, "-")
    IN  <<SubSeq(s, 1, i - 1),
          IF j = 0 THEN rest ELSE SubSeq(rest, 1, j - 1)>>

\* the range branch: "1-5"
RangeMatch_StrictMin(ordinal, qualifier) ==
    LET bounds == SplitDash(qualifier)
        min    == Atoi(bounds[1]).val
        max    == Atoi(bounds[2]).val
    IN  ordinal > min /\ ordinal <= max

RangeMatch_NoMax(ordinal, qualifier) ==
    LET bounds == SplitDash(qualifier)
        min    == Atoi(bounds[1]).val
    IN  ordinal >= min

RangeMatch(ordinal, qualifier) ==
    LET bounds == SplitDash(qualifier)
        min    == Atoi(bounds[1]).val
        max    == Atoi(bounds[2]).val
    IN  ordinal >= min /\ ordinal <= max

\* the exact branch: "3"
ExactMatch_AtLeast(ordinal, qualifier) == ordinal >= Atoi(qualifier).val

ExactMatch(ordinal, qualifier) == ordinal = Atoi(qualifier).val

\* the lower-bound branch: "3-"
LowerBoundMatch_Strict(ordinal, qualifier) ==
    ordinal > Atoi(TrimSuffixDash(qualifier)).val

LowerBoundMatch(ordinal, qualifier) ==
    ordinal >= Atoi(TrimSuffixDash(qualifier)).val

\* the upper-bound branch: "-5"
UpperBoundMatch(ordinal, qualifier) ==
    ordinal <= Atoi(TrimPrefixDash(qualifier)).val

CommonPodQualifier_Lenient(ordinal, qualifier) ==
    IF qualifier = <<>> THEN TRUE
    ELSE IF rangeRegex(qualifier) THEN RangeMatch(ordinal, qualifier)
    ELSE IF exactNumberRegex(qualifier) THEN ExactMatch(ordinal, qualifier)
    ELSE IF lowerBoundRegex(qualifier) THEN LowerBoundMatch(ordinal, qualifier)
    ELSE IF upperBoundRegex(qualifier) THEN UpperBoundMatch(ordinal, qualifier)
    ELSE TRUE

CommonPodQualifier(ordinal, qualifier) ==
    IF qualifier = <<>> THEN TRUE
    ELSE IF rangeRegex(qualifier) THEN RangeMatch(ordinal, qualifier)
    ELSE IF exactNumberRegex(qualifier) THEN ExactMatch(ordinal, qualifier)
    ELSE IF lowerBoundRegex(qualifier) THEN LowerBoundMatch(ordinal, qualifier)
    ELSE IF upperBoundRegex(qualifier) THEN UpperBoundMatch(ordinal, qualifier)
    ELSE FALSE

(***************************************************************************)
(* The matcher called on its own: every ordinal, every qualifier string    *)
(***************************************************************************)
\* the digits 0..MaxOrdinal+1, the hyphen and a letter
QualChars == {DigitChars[d] : d \in 1..(MaxOrdinal + 2)} \cup {"-", "a"}

QualInit ==
    /\ qOrdinal \in 0..MaxOrdinal
    /\ qQualifier \in StringsUpTo(QualChars, MaxQualLen)
    /\ qResult = FALSE
    /\ qPc = "call"

QualIdle ==
    /\ qOrdinal = 0
    /\ qQualifier = <<>>
    /\ qResult = FALSE
    /\ qPc = "idle"

CallQualifier ==
    /\ qPc = "call"
    /\ qResult' = CommonPodQualifier(qOrdinal, qQualifier)
    /\ qPc' = "done"
    /\ UNCHANGED <<qOrdinal, qQualifier, identVars, handlerVars, pipeVars, annotVars>>

(***************************************************************************)
(* The identity extractor (identifier.LabelSSPodIdentifier).  The labels   *)
(* of an object either lack the key statefulset.kubernetes.io/pod-name or  *)
(* carry a value for it.  The repository holds two implementations.        *)
(***************************************************************************)
NoLabel == [has |-> FALSE, value |-> <<>>]

PodNameLabel(v) == [has |-> TRUE, value |-> v]

ExtractResult(name, ordinal, err) == [name |-> name, ordinal |-> ordinal, err |-> err]

\* statefulsetPodNameRegex ^(.+)-(\d+)$ : the index of the hyphen that ends
\* the greedy first group, 0 when the string does not match; the dot matches
\* every character but the line feed
statefulsetPodNameRegex(s) ==
    LET hyphens == {i \in 2..(Len(s) - 1) :
                        /\ s[i] = "-"
                        /\ \A j \in 1..(i - 1) : s[j] # "\n"
                        /\ AllDigits(SubSeq(s, i + 1, Len(s)))}
    IN  IF hyphens = {} THEN 0
        ELSE CHOOSE i \in hyphens : \A j \in hyphens : j <= i

\* the implementation with the anchored regular expression
LabelSSPodIdentifier_FirstHyphen(labels) ==
    IF ~labels.has THEN ExtractResult(<<>>, -1, "ErrMissingLabel")
    ELSE
        LET podName == labels.value
            i       == IndexOf(podName, "-")
        IN  IF statefulsetPodNameRegex(podName) = 0
            THEN ExtractResult(<<>>, -1, "ErrInvalidLabelValue")
            ELSE
                LET ordinal == Atoi(SubSeq(podName, i + 1, Len(podName)))
                IN  ExtractResult(SubSeq(podName, 1, i - 1), ordinal.val, "nil")

LabelSSPodIdentifier(labels) ==
    IF ~labels.has THEN ExtractResult(<<>>, -1, "ErrMissingLabel")
    ELSE
        LET podName == labels.value
            i       == statefulsetPodNameRegex(podName)
        IN  IF i = 0 THEN ExtractResult(<<>>, -1, "ErrInvalidLabelValue")
            ELSE
                LET ssName  == SubSeq(podName, 1, i - 1)
                    ordinal == Atoi(SubSeq(podName, i + 1, Len(podName)))
                IN  IF ~ordinal.ok
                    THEN ExtractResult(<<>>, -1, "ErrParsingOrdinal")
                    ELSE ExtractResult(ssName, ordinal.val, "nil")

\* regexp.MatchString(".+-\\d+", l): not anchored, so a match anywhere: a
\* character other than the line feed, a hyphen, a digit
MatchNameHyphenDigits(l) ==
    \E i \in 2..(Len(l) - 1) :
        l[i - 1] # "\n" /\ l[i] = "-" /\ IsDigit(l[i + 1])

\* the implementation that matches unanchored and splits at the last hyphen
LabelSSPodIdentifier_Unanchored(labels) ==
    IF ~labels.has THEN ExtractResult(<<>>, -1, "missing statefulset label")
    ELSE
        LET l == labels.value
        IN  IF ~MatchNameHyphenDigits(l)
            THEN ExtractResult(<<>>, -1, "unexpected label value")
            ELSE
                LET i       == LastIndex(l, "-")
                    ordinal == Atoi(SubSeq(l, i + 1, Len(l))).val
                IN  ExtractResult(SubSeq(l, 1, i - 1), ordinal, "nil")

\* SSPodIdentifierFunc.Extract: the injected implementation
Extract(impl, labels) ==
    IF impl = "anchored" THEN LabelSSPodIdentifier(labels)
    ELSE LabelSSPodIdentifier_Unanchored(labels)

Identifiers == {"anchored", "unanchored"}

LabelChars == {"w", "-", "0", "3", "x", "\n"}

LabelInputs ==
    {NoLabel} \cup {PodNameLabel(v) : v \in StringsUpTo(LabelChars, MaxLabelLen)}

NoResult == [impl |-> "none", res |-> ExtractResult(<<>>, 0, "nil")]

IdentInit ==
    /\ iLabels \in LabelInputs
    /\ iResult = NoResult
    /\ iPc = "call"

IdentIdle ==
    /\ iLabels = NoLabel
    /\ iResult = NoResult
    /\ iPc = "idle"

CallExtract ==
    /\ iPc = "call"
    /\ iResult' = [impl |-> "anchored", res |-> Extract("anchored", iLabels)]
    /\ iPc' = "done"
    /\ UNCHANGED <<iLabels, qualVars, handlerVars, pipeVars, annotVars>>

CallExtractUnanchored ==
    /\ iPc = "call"
    /\ iResult' = [impl |-> "unanchored", res |-> Extract("unanchored", iLabels)]
    /\ iPc' = "done"
    /\ UNCHANGED <<iLabels, qualVars, handlerVars, pipeVars, annotVars>>

(***************************************************************************)
(* The pod specification and the handlers' configurations                  *)
(***************************************************************************)
ContainerPort(name, containerPort, hostPort) ==
    [name |-> name, containerPort |-> containerPort, hostPort |-> hostPort]

EnvVar(name, value) == [name |-> name, value |-> value]

VolumeMount(name, mountPath) == [name |-> name, mountPath |-> mountPath]

\* a reference to a ConfigMap or a Secret: a nil pointer, or the name
NilRef == [set |-> FALSE, name |-> ""]

Ref(name) == [set |-> TRUE, name |-> name]

Volume(name, configMap, secret) ==
    [name |-> name, configMap |-> configMap, secret |-> secret]

Container(name, ports, env, volumeMounts) ==
    [name |-> name, ports |-> ports, env |-> env, volumeMounts |-> volumeMounts]

PodSpec(containers, volumes) ==
    [nil |-> FALSE, containers |-> containers, volumes |-> volumes]

\* a nil *corev1.PodSpec
NilPodSpec == [nil |-> TRUE, containers |-> <<>>, volumes |-> <<>>]

\* containerPortsConfig
ContainerPortsConfig(name, ports) == [name |-> name, ports |-> ports]

\* a configuration value of type any: *portConfig, *mountConfig, or another
\* type (nil included).  body.nil says that the cfg pointer inside is nil.
PortConfig(qualifier, containers) ==
    [type |-> "portConfig", qualifier |-> qualifier,
     body |-> [nil |-> FALSE, containers |-> containers, volumes |-> <<>>]]

MountConfig(qualifier, volumes, containers) ==
    [type |-> "mountConfig", qualifier |-> qualifier,
     body |-> [nil |-> FALSE, containers |-> containers, volumes |-> volumes]]

NilBody(cfg) ==
    [cfg EXCEPT !.body = [nil |-> TRUE, containers |-> <<>>, volumes |-> <<>>]]

NilConfig ==
    [type |-> "nil", qualifier |-> <<>>,
     body |-> [nil |-> TRUE, containers |-> <<>>, volumes |-> <<>>]]

\* what a Mutate call leaves behind: the pod spec and the error
MutateResult(spec, err) == [spec |-> spec, err |-> err]

(***************************************************************************)
(* The host-port handler (ports.HostPortHandler)                           *)
(***************************************************************************)
PodOrdinal == "POD_ORDINAL"

PortPrefix == "PORT_"

MaxInt32 == 2147483647

\* a + b in int32, wrapping around at either end
Int32Add(a, b) ==
    IF b > 0 /\ a > MaxInt32 - b
    THEN (a - MaxInt32 - 1) + (b - MaxInt32 - 1)
    ELSE IF b < 0 /\ a < (0 - MaxInt32 - 1) - b
    THEN (a + MaxInt32 + 1) + (b + MaxInt32 + 1)
    ELSE a + b

\* newHostPort := int32(portConfig.HostPort) + int32(ordinal)
NewHostPort_NoOffset(hostPort, ordinal) == hostPort

\* int32(x) is the low 32 bits of x as a signed number
NewHostPort(hostPort, ordinal) ==
    LET int32(x) ==
            IF 0 - MaxInt32 - 1 <= x /\ x <= MaxInt32 THEN x
            ELSE ((x + MaxInt32 + 1) % (2 * (MaxInt32 + 1))) - MaxInt32 - 1
    IN  Int32Add(int32(hostPort), int32(ordinal))

\* the index of the first port with this name, 0 when there is none
FindPort(ports, name) ==
    IF \E j \in 1..Len(ports) : ports[j].name = name
    THEN CHOOSE j \in 1..Len(ports) :
            ports[j].name = name /\ \A k \in 1..(j - 1) : ports[k].name # name
    ELSE 0

\* a pass that appends the port without looking for its name
ProcessPort_AlwaysAppend(ports, portConfig, ordinal) ==
    IF portConfig.hostPort <= 0 THEN ports
    ELSE Append(ports, [portConfig EXCEPT
                            !.hostPort = NewHostPort(portConfig.hostPort, ordinal)])

\* one pass of the loop over containerConfig.Ports
ProcessPort(ports, portConfig, ordinal) ==
    IF portConfig.hostPort <= 0 THEN ports
    ELSE
        LET newHostPort == NewHostPort(portConfig.hostPort, ordinal)
            j           == FindPort(ports, portConfig.name)
        IN  IF j # 0 THEN [ports EXCEPT ![j].hostPort = newHostPort]
            ELSE Append(ports, [portConfig EXCEPT !.hostPort = newHostPort])

RECURSIVE ProcessPorts(_, _, _)
ProcessPorts(ports, portConfigs, ordinal) ==
    IF portConfigs = <<>> THEN ports
    ELSE ProcessPorts(ProcessPort(ports, Head(portConfigs), ordinal),
                      Tail(portConfigs), ordinal)

\* a map of port variables in which the first write to a name stays
RECURSIVE PortEnvVars_FirstWins(_, _)
PortEnvVars_FirstWins(portConfigs, ordinal) ==
    IF portConfigs = <<>> THEN <<>>
    ELSE
        LET last == portConfigs[Len(portConfigs)]
            rest == PortEnvVars_FirstWins(
                        SubSeq(portConfigs, 1, Len(portConfigs) - 1), ordinal)
            name == PortPrefix \o last.name
        IN  IF last.hostPort <= 0 \/ name \in DOMAIN rest THEN rest
            ELSE [n \in (DOMAIN rest) \cup {name} |->
                    IF n = name THEN Itoa(NewHostPort(last.hostPort, ordinal))
                    ELSE rest[n]]

\* portEnvVars[containerConfig.Name] after the loop over the ports: a map
\* from variable name to value, the last write to a name winning
RECURSIVE PortEnvVars(_, _)
PortEnvVars(portConfigs, ordinal) ==
    IF portConfigs = <<>> THEN <<>>
    ELSE
        LET last == portConfigs[Len(portConfigs)]
            rest == PortEnvVars(SubSeq(portConfigs, 1, Len(portConfigs) - 1), ordinal)
            name == PortPrefix \o last.name
        IN  IF last.hostPort <= 0 THEN rest
            ELSE [n \in (DOMAIN rest) \cup {name} |->
                    IF n = name THEN Itoa(NewHostPort(last.hostPort, ordinal))
                    ELSE rest[n]]

\* an upsert that never looks for the name
appendEnvVar_AlwaysAppend(envVars, envVar) == Append(envVars, envVar)

appendEnvVarIfNotExists(envVars, envVar) ==
    IF \E i \in 1..Len(envVars) : envVars[i].name = envVar.name
    THEN LET i == CHOOSE i \in 1..Len(envVars) :
                    /\ envVars[i].name = envVar.name
                    /\ \A k \in 1..(i - 1) : envVars[k].name # envVar.name
         IN  [envVars EXCEPT ![i] = envVar]
    ELSE Append(envVars, envVar)

\* every order in which a range over a map with these keys may visit them
Orders(keys) ==
    {o \in [1..Cardinality(keys) -> keys] :
        \A a, b \in 1..Cardinality(keys) : a # b => o[a] # o[b]}

RECURSIVE AppendEnvVars(_, _, _)
AppendEnvVars(envVars, order, map) ==
    IF order = <<>> THEN envVars
    ELSE AppendEnvVars(
            appendEnvVarIfNotExists(envVars, EnvVar(Head(order), map[Head(order)])),
            Tail(order), map)

\* the body of the loop over spec.Containers for a container whose name is
\* containerConfig.Name: the containers it may leave, one per iteration
\* order of the map of port variables
ProcessContainer(container, containerConfig, ordinal) ==
    LET ports  == ProcessPorts(container.ports, containerConfig.ports, ordinal)
        map    == PortEnvVars(containerConfig.ports, ordinal)
        env    == appendEnvVarIfNotExists(container.env, EnvVar(PodOrdinal, Itoa(ordinal)))
    IN  {[container EXCEPT !.ports = ports, !.env = AppendEnvVars(env, order, map)] :
            order \in Orders(DOMAIN map)}

\* every sequence that takes its i-th element from sets[i]
RECURSIVE Choices(_)
Choices(sets) ==
    IF sets = <<>> THEN {<<>>}
    ELSE {<<x>> \o rest : x \in Head(sets), rest \in Choices(Tail(sets))}

\* a loop that creates the container when the pod has none of that name
ProcessContainerConfig_AddMissing(containers, containerConfig, ordinal) ==
    IF \A i \in 1..Len(containers) : containers[i].name # containerConfig.name
    THEN {Append(containers, c) :
            c \in ProcessContainer(Container(containerConfig.name, <<>>, <<>>, <<>>),
                                   containerConfig, ordinal)}
    ELSE Choices([i \in 1..Len(containers) |->
                IF containers[i].name # containerConfig.name THEN {containers[i]}
                ELSE ProcessContainer(containers[i], containerConfig, ordinal)])

\* the loop over spec.Containers for one containerConfig
ProcessContainerConfig(containers, containerConfig, ordinal) ==
    Choices([i \in 1..Len(containers) |->
                IF containers[i].name # containerConfig.name THEN {containers[i]}
                ELSE ProcessContainer(containers[i], containerConfig, ordinal)])

\* the loop over m.cfg.Containers
RECURSIVE ProcessContainerConfigs(_, _, _)
ProcessContainerConfigs(containers, containerConfigs, ordinal) ==
    IF containerConfigs = <<>> THEN {containers}
    ELSE UNION {ProcessContainerConfigs(cs, Tail(containerConfigs), ordinal) :
                    cs \in ProcessContainerConfig(containers, Head(containerConfigs), ordinal)}

\* a new port that is the configuration's own entry, not a copy of it
CopyPort_Alias(portConfig) == [object |-> "config", port |-> portConfig]

\* newPort := portConfig.DeepCopy(): the object whose HostPort is then set
CopyPort(portConfig) == [object |-> "copy", port |-> portConfig]

\* the declared ports as the configuration holds them after the loop over
\* containerConfig.Ports on a container with these ports: an entry changes
\* only if the new port whose HostPort is set is the entry itself
RECURSIVE PortConfigsAfter(_, _, _)
PortConfigsAfter(ports, portConfigs, ordinal) ==
    IF portConfigs = <<>> THEN <<>>
    ELSE
        LET portConfig == Head(portConfigs)
            appended   == portConfig.hostPort > 0 /\ FindPort(ports, portConfig.name) = 0
            after      == IF appended /\ CopyPort(portConfig).object = "config"
                          THEN [portConfig EXCEPT
                                    !.hostPort = NewHostPort(portConfig.hostPort, ordinal)]
                          ELSE portConfig
        IN  <<after>> \o PortConfigsAfter(ProcessPort(ports, portConfig, ordinal),
                                          Tail(portConfigs), ordinal)

\* one containerConfig after the loop over spec.Containers
RECURSIVE ContainerConfigAfter(_, _, _)
ContainerConfigAfter(containers, containerConfig, ordinal) ==
    IF containers = <<>> THEN containerConfig
    ELSE IF Head(containers).name # containerConfig.name
    THEN ContainerConfigAfter(Tail(containers), containerConfig, ordinal)
    ELSE ContainerConfigAfter(Tail(containers),
            [containerConfig EXCEPT
                !.ports = PortConfigsAfter(Head(containers).ports, @, ordinal)],
            ordinal)

\* m.cfg.Containers after the loop over them
RECURSIVE ContainerConfigsAfter(_, _, _)
ContainerConfigsAfter(containers, containerConfigs, ordinal) ==
    IF containerConfigs = <<>> THEN <<>>
    ELSE
        LET next == CHOOSE cs \in ProcessContainerConfig(
                                    containers, Head(containerConfigs), ordinal) : TRUE
        IN  <<ContainerConfigAfter(containers, Head(containerConfigs), ordinal)>>
                \o ContainerConfigsAfter(next, Tail(containerConfigs), ordinal)

\* the configuration argument after HostPortHandler.Mutate
HostPortMutateConfig(spec, ordinal, cfg) ==
    IF cfg.type # "portConfig" \/ ~CommonPodQualifier(ordinal, cfg.qualifier)
        \/ cfg.body.nil \/ spec.nil
    THEN cfg
    ELSE [cfg EXCEPT !.body.containers =
                ContainerConfigsAfter(spec.containers, @, ordinal)]

\* a Mutate without the type assertion on its configuration
HostPortMutate_NoTypeCheck(spec, ordinal, cfg) ==
    IF ~CommonPodQualifier(ordinal, cfg.qualifier)
    THEN {MutateResult(spec, "nil")}
    ELSE IF cfg.body.nil \/ (spec.nil /\ cfg.body.containers # <<>>)
    THEN {MutateResult(spec, "panic: nil pointer dereference")}
    ELSE {MutateResult([spec EXCEPT !.containers = cs], "nil") :
            cs \in ProcessContainerConfigs(spec.containers, cfg.body.containers, ordinal)}

\* HostPortHandler.Mutate: the results the call may have
HostPortMutate(spec, ordinal, cfg) ==
    IF cfg.type # "portConfig"
    THEN {MutateResult(spec, "unexpected config type")}
    ELSE IF ~CommonPodQualifier(ordinal, cfg.qualifier)
    THEN {MutateResult(spec, "nil")}
    ELSE IF cfg.body.nil \/ (spec.nil /\ cfg.body.containers # <<>>)
    THEN {MutateResult(spec, "panic: nil pointer dereference")}
    ELSE {MutateResult([spec EXCEPT !.containers = cs], "nil") :
            cs \in ProcessContainerConfigs(spec.containers, cfg.body.containers, ordinal)}

(***************************************************************************)
(* The mount-volume handler (volumes.MountHandler)                         *)
(***************************************************************************)
\* ordinalSuffix := "-" + strconv.Itoa(ordinal)
OrdinalSuffix(ordinal) == "-" \o Itoa(ordinal)

\* the copy of one declared volume, its ConfigMap and Secret names suffixed
RenameVolume_ConfigMapOnly(v, ordinal) ==
    [v EXCEPT !.configMap = IF v.configMap.set
                            THEN Ref(v.configMap.name \o OrdinalSuffix(ordinal))
                            ELSE v.configMap]

RenameVolume(v, ordinal) ==
    LET withConfigMap ==
            IF v.configMap.set
            THEN [v EXCEPT !.configMap = Ref(v.configMap.name \o OrdinalSuffix(ordinal))]
            ELSE v
    IN  IF v.secret.set
        THEN [withConfigMap EXCEPT !.secret = Ref(v.secret.name \o OrdinalSuffix(ordinal))]
        ELSE withConfigMap

\* the loop over m.cfg.Volumes
ProcessVolumes(volumes, ordinal) ==
    [i \in 1..Len(volumes) |-> RenameVolume(volumes[i], ordinal)]

\* a new volume that keeps the configuration's own ConfigMap or Secret
CopySource_Alias(ref) == [object |-> "config", ref |-> ref]

\* volumes[i].ConfigMap = v.ConfigMap.DeepCopy(), and the same for Secret:
\* the object that is then renamed
CopySource(ref) == [object |-> "copy", ref |-> ref]

\* one declared volume as the configuration holds it after the loop body:
\* it changes only if the object that is renamed is the configuration's own
DeclaredVolumeAfter(v, ordinal) ==
    LET renamed == RenameVolume(v, ordinal)
    IN  [v EXCEPT
            !.configMap = IF v.configMap.set /\ CopySource(v.configMap).object = "config"
                          THEN renamed.configMap ELSE @,
            !.secret    = IF v.secret.set /\ CopySource(v.secret).object = "config"
                          THEN renamed.secret ELSE @]

\* a loop that leaves a container alone when it has the mounts already
AddVolumeMounts_IfMissing(containers, source) ==
    [i \in 1..Len(containers) |->
        IF source.name = containers[i].name
            /\ \E m \in 1..Len(source.volumeMounts) :
                    \A j \in 1..Len(containers[i].volumeMounts) :
                        containers[i].volumeMounts[j] # source.volumeMounts[m]
        THEN [containers[i] EXCEPT !.volumeMounts = @ \o source.volumeMounts]
        ELSE containers[i]]

\* a loop that adds the mounts only to containers with an environment
AddVolumeMounts_IfHasEnv(containers, source) ==
    [i \in 1..Len(containers) |->
        IF source.name = containers[i].name /\ containers[i].env # <<>>
        THEN [containers[i] EXCEPT !.volumeMounts = @ \o source.volumeMounts]
        ELSE containers[i]]

\* a loop that adds the mounts to every container, whatever its name
AddVolumeMounts_AnyName(containers, source) ==
    [i \in 1..Len(containers) |->
        [containers[i] EXCEPT !.volumeMounts = @ \o source.volumeMounts]]

\* the loop over spec.Containers for one declared container
AddVolumeMounts(containers, source) ==
    [i \in 1..Len(containers) |->
        IF source.name = containers[i].name
        THEN [containers[i] EXCEPT !.volumeMounts = @ \o source.volumeMounts]
        ELSE containers[i]]

\* the loop over m.cfg.Containers
RECURSIVE AddAllVolumeMounts(_, _)
AddAllVolumeMounts(containers, sources) ==
    IF sources = <<>> THEN containers
    ELSE AddAllVolumeMounts(AddVolumeMounts(containers, Head(sources)), Tail(sources))

\* MountHandler.Mutate
MountMutate(spec, ordinal, cfg) ==
    IF cfg.type # "mountConfig"
    THEN MutateResult(spec, "unexpected config type")
    ELSE IF ~CommonPodQualifier(ordinal, cfg.qualifier)
    THEN MutateResult(spec, "nil")
    ELSE IF cfg.body.nil \/ spec.nil
    THEN MutateResult(spec, "panic: nil pointer dereference")
    ELSE MutateResult(
            [spec EXCEPT
                !.volumes = @ \o ProcessVolumes(cfg.body.volumes, ordinal),
                !.containers = AddAllVolumeMounts(@, cfg.body.containers)],
            "nil")

\* the configuration argument after MountHandler.Mutate
MountMutateConfig(spec, ordinal, cfg) ==
    IF cfg.type # "mountConfig" \/ ~CommonPodQualifier(ordinal, cfg.qualifier)
        \/ cfg.body.nil
    THEN cfg
    ELSE [cfg EXCEPT !.body.volumes =
                [i \in 1..Len(@) |-> DeclaredVolumeAfter(@[i], ordinal)]]

(***************************************************************************)
(* The handlers called on their own                                        *)
(***************************************************************************)
HandlerQualifiers == {<<>>, <<"0", "-", "1">>}

\* the port lists a container of the pod starts with
PodPortLists ==
    {<<>>,
     <<ContainerPort("http", 80, 7)>>,
     <<ContainerPort("rpc", 90, 0), ContainerPort("http", 80, 7)>>,
     <<ContainerPort("http", 80, 7), ContainerPort("http", 81, 8)>>}

\* the environments a container of the pod starts with
PodEnvLists ==
    {<<>>,
     <<EnvVar("A", "1"), EnvVar("PORT_http", "stale")>>,
     <<EnvVar("POD_ORDINAL", "stale"), EnvVar("A", "1")>>}

\* the pod specs: a container named web, alone or followed by another one
HostPortPodSpecs ==
    LET first  == {Container("web", ports, env, <<>>) :
                        ports \in PodPortLists, env \in PodEnvLists}
        second == {Container("db", <<>>, <<>>, <<>>),
                   Container("web", <<ContainerPort("http", 80, 7)>>, <<>>, <<>>)}
    IN  {PodSpec(<<c>>, <<>>) : c \in first}
            \cup {PodSpec(<<c, d>>, <<>>) : c \in first, d \in second}

\* the ports a configuration declares
DeclaredPorts ==
    {ContainerPort("http", 8080, 30000), ContainerPort("http", 8080, 30010),
     ContainerPort("rpc", 9090, 30000), ContainerPort("rpc", 9090, 0)}

DeclaredPortLists == StringsUpTo(DeclaredPorts, MaxCfgPorts)

\* the configurations: none, one or two declared containers
HostPortBodies ==
    LET first  == {ContainerPortsConfig(n, ports) :
                        n \in {"web", "db"}, ports \in DeclaredPortLists}
        second == {ContainerPortsConfig("web", <<ContainerPort("http", 8080, 30010)>>),
                   ContainerPortsConfig("db", <<ContainerPort("rpc", 9090, 30000)>>)}
    IN  {<<>>} \cup {<<c>> : c \in first} \cup {<<c, d>> : c \in first, d \in second}

HostPortConfigs ==
    LET typed == {PortConfig(q, b) : q \in HandlerQualifiers, b \in HostPortBodies}
    IN  typed \cup {NilBody(PortConfig(q, <<>>)) : q \in HandlerQualifiers}
              \cup {NilConfig, MountConfig(<<>>, <<>>, <<>>)}

\* the volumes and mounts a pod starts with
PodVolumeLists == {<<>>, <<Volume("data", NilRef, NilRef)>>}

PodMountLists == {<<>>, <<VolumeMount("data", "/data")>>}

MountPodSpecs ==
    LET first  == {Container("web", <<>>, <<>>, mounts) : mounts \in PodMountLists}
        second == {Container("db", <<>>, <<>>, <<>>),
                   Container("web", <<>>, <<>>, <<VolumeMount("data", "/data")>>)}
    IN  {PodSpec(<<c>>, vs) : c \in first, vs \in PodVolumeLists}
            \cup {PodSpec(<<c, d>>, vs) : c \in first, d \in second, vs \in PodVolumeLists}

\* the volumes a configuration declares: backed by a ConfigMap, by a
\* Secret, by neither, by both
DeclaredVolumes ==
    {Volume("v1", Ref("cfg"), NilRef), Volume("v2", NilRef, Ref("sec")),
     Volume("v3", NilRef, NilRef), Volume("v4", Ref("cfg"), Ref("sec"))}

DeclaredVolumeLists == StringsUpTo(DeclaredVolumes, MaxCfgVolumes)

\* the per-container mount groups a configuration declares
DeclaredMountGroups ==
    LET lists  == {<<>>, <<VolumeMount("v1", "/etc/v1")>>,
                   <<VolumeMount("v1", "/etc/v1"), VolumeMount("v2", "/etc/v2")>>}
        first  == {[name |-> n, volumeMounts |-> ms] : n \in {"web", "db"}, ms \in lists}
        second == {[name |-> "web", volumeMounts |-> <<VolumeMount("v3", "/etc/v3")>>]}
    IN  {<<>>} \cup {<<c>> : c \in first} \cup {<<c, d>> : c \in first, d \in second}

MountConfigs ==
    LET typed == {MountConfig(q, vs, cs) :
                    q \in HandlerQualifiers, vs \in DeclaredVolumeLists,
                    cs \in DeclaredMountGroups}
    IN  typed \cup {NilBody(MountConfig(q, <<>>, <<>>)) : q \in HandlerQualifiers}
              \cup {NilConfig}

\* the calls: a pod spec with a configuration of either handler
HandlerInputs ==
    ((HostPortPodSpecs \cup {NilPodSpec}) \X HostPortConfigs)
        \cup ((MountPodSpecs \cup {NilPodSpec}) \X MountConfigs)

HandlerIdle ==
    /\ hHandler = "none"
    /\ hSpec = NilPodSpec
    /\ hPre = NilPodSpec
    /\ hOrdinal = 0
    /\ hCfg = NilConfig
    /\ hErr = "nil"
    /\ hPc = "idle"
    /\ hCfgPre = NilConfig
    /\ hCalls = 0

HandlerInit ==
    /\ hHandler = "none"
    /\ \E in \in HandlerInputs :
        /\ hSpec = in[1]
        /\ hCfg = in[2]
    /\ hPre = hSpec
    /\ hOrdinal \in 0..MaxOrdinal
    /\ hErr = "nil"
    /\ hPc = "call"
    /\ hCfgPre = hCfg
    /\ hCalls = 0

\* h.Mutate(spec, ordinal, cfg) of the host-port handler
CallHostPortMutate ==
    /\ hPc = "call"
    /\ \E r \in HostPortMutate(hSpec, hOrdinal, hCfg) :
        /\ hSpec' = r.spec
        /\ hErr' = r.err
    /\ hCfg' = HostPortMutateConfig(hSpec, hOrdinal, hCfg)
    /\ hHandler' = "host-port"
    /\ hPc' = "done"
    /\ hCalls' = hCalls + 1
    /\ UNCHANGED <<hPre, hOrdinal, hCfgPre, qualVars, identVars, pipeVars, annotVars>>

\* h.Mutate(spec, ordinal, cfg) of the mount-volume handler
CallMountMutate ==
    /\ hPc = "call"
    /\ LET r == MountMutate(hSpec, hOrdinal, hCfg)
       IN  /\ hSpec' = r.spec
           /\ hErr' = r.err
    /\ hCfg' = MountMutateConfig(hSpec, hOrdinal, hCfg)
    /\ hHandler' = "mount-volume"
    /\ hPc' = "done"
    /\ hCalls' = hCalls + 1
    /\ UNCHANGED <<hPre, hOrdinal, hCfgPre, qualVars, identVars, pipeVars, annotVars>>

(***************************************************************************)
(* A handler's Mutate called again: on the pod spec its last call left,    *)
(* and on the pod of another ordinal with the configuration it was given   *)
(***************************************************************************)
\* the calls that are repeated: the pod specs of the single calls, with
\* configurations whose ports are declared once, twice under one name,
\* under two names and without a host port, and whose volumes are backed by
\* a ConfigMap, a Secret, both and neither
RepeatInputs ==
    LET portLists ==
            {<<>>,
             <<ContainerPort("http", 8080, 30000)>>,
             <<ContainerPort("http", 8080, 30000), ContainerPort("http", 8080, 30010)>>,
             <<ContainerPort("rpc", 9090, 30000), ContainerPort("http", 8080, 30010)>>,
             <<ContainerPort("rpc", 9090, 0)>>}
        first  == {ContainerPortsConfig(n, ports) :
                        n \in {"web", "db"}, ports \in portLists}
        second == {ContainerPortsConfig("web", <<ContainerPort("http", 8080, 30010)>>)}
        bodies == {<<>>} \cup {<<c>> : c \in first}
                        \cup {<<c, d>> : c \in first, d \in second}
        hostPortConfigs ==
            {PortConfig(q, b) : q \in HandlerQualifiers, b \in bodies}
                \cup {NilConfig, MountConfig(<<>>, <<>>, <<>>)}
        volumeLists ==
            {<<>>,
             <<Volume("v1", Ref("cfg"), NilRef)>>,
             <<Volume("v4", Ref("cfg"), Ref("sec")), Volume("v2", NilRef, Ref("sec"))>>,
             <<Volume("v3", NilRef, NilRef)>>}
        mountConfigs ==
            {MountConfig(q, vs, cs) :
                q \in HandlerQualifiers, vs \in volumeLists, cs \in DeclaredMountGroups}
                \cup {NilConfig}
    IN  (HostPortPodSpecs \X hostPortConfigs) \cup (MountPodSpecs \X mountConfigs)

RepeatInit ==
    /\ hHandler = "none"
    /\ \E in \in RepeatInputs :
        /\ hSpec = in[1]
        /\ hCfg = in[2]
    /\ hPre = hSpec
    /\ hOrdinal \in 0..MaxOrdinal
    /\ hErr = "nil"
    /\ hPc = "call"
    /\ hCfgPre = hCfg
    /\ hCalls = 0

\* h.Mutate(spec, ordinal, cfg) of the host-port handler, once more
HostPortMutateAgain ==
    /\ hPc \in {"done", "next", "doneNext"}
    /\ hHandler = "host-port"
    /\ hCalls < MaxCalls
    /\ \E r \in HostPortMutate(hSpec, hOrdinal, hCfg) :
        /\ hSpec' = r.spec
        /\ hErr' = r.err
    /\ hCfg' = HostPortMutateConfig(hSpec, hOrdinal, hCfg)
    /\ hCalls' = hCalls + 1
    /\ hPc' = IF hPc = "done" THEN "done" ELSE "doneNext"
    /\ UNCHANGED <<hHandler, hPre, hOrdinal, hCfgPre>>
    /\ UNCHANGED <<qualVars, identVars, pipeVars, annotVars>>

\* h.Mutate(spec, ordinal, cfg) of the mount-volume handler, once more
MountMutateAgain ==
    /\ hPc \in {"done", "next", "doneNext"}
    /\ hHandler = "mount-volume"
    /\ hCalls < MaxCalls
    /\ LET r == MountMutate(hSpec, hOrdinal, hCfg)
       IN  /\ hSpec' = r.spec
           /\ hErr' = r.err
    /\ hCfg' = MountMutateConfig(hSpec, hOrdinal, hCfg)
    /\ hCalls' = hCalls + 1
    /\ hPc' = IF hPc = "done" THEN "done" ELSE "doneNext"
    /\ UNCHANGED <<hHandler, hPre, hOrdinal, hCfgPre>>
    /\ UNCHANGED <<qualVars, identVars, pipeVars, annotVars>>

\* the caller turns to the pod of another ordinal: the same pod spec as the
\* first pod had, and the configuration the handler was given before
NextPod ==
    /\ hPc = "done"
    /\ hPc' = "next"
    /\ hSpec' = hPre
    /\ hOrdinal' \in (0..MaxOrdinal) \ {hOrdinal}
    /\ hErr' = "nil"
    /\ hCalls' = 0
    /\ UNCHANGED <<hHandler, hPre, hCfg, hCfgPre>>
    /\ UNCHANGED <<qualVars, identVars, pipeVars, annotVars>>

(***************************************************************************)
(* The annotation collector (annotation.Collector)                         *)
(***************************************************************************)
Prefix == <<"s", "p", "o", "d", "i", "t", "o", "r", ".", "i", "o", "/">>

Separator == "_"

QualifiedName(qualifier, name) == [qualifier |-> qualifier, name |-> name]

\* strings.HasPrefix(k, Prefix)
HasPrefix(k) == Len(k) >= Len(Prefix) /\ SubSeq(k, 1, Len(Prefix)) = Prefix

\* the qualified name of an annotation key that has the prefix
ParseKey_FirstSeparator(k) ==
    LET name           == SubSeq(k, Len(Prefix) + 1, Len(k))
        separatorIndex == IndexOf(name, Separator)
    IN  IF separatorIndex = 0 THEN QualifiedName(<<>>, name)
        ELSE QualifiedName(SubSeq(name, separatorIndex + 1, Len(name)),
                           SubSeq(name, 1, separatorIndex - 1))

\* a split that keeps the feature name and forgets the qualifier
ParseKey_DropQualifier(k) ==
    LET name           == SubSeq(k, Len(Prefix) + 1, Len(k))
        separatorIndex == LastIndex(name, Separator)
    IN  IF separatorIndex = 0 THEN QualifiedName(<<>>, name)
        ELSE QualifiedName(<<>>, SubSeq(name, 1, separatorIndex - 1))

ParseKey(k) ==
    LET name           == SubSeq(k, Len(Prefix) + 1, Len(k))
        separatorIndex == LastIndex(name, Separator)
    IN  IF separatorIndex = 0 THEN QualifiedName(<<>>, name)
        ELSE QualifiedName(SubSeq(name, separatorIndex + 1, Len(name)),
                           SubSeq(name, 1, separatorIndex - 1))

\* defaultCollector: the maps the loop over the annotations may build; two
\* keys with the same qualified name leave the value of the one visited last
Collect(annotations) ==
    LET prefixed == {k \in DOMAIN annotations : HasPrefix(k)}
        names    == {ParseKey(k) : k \in prefixed}
        values   == {annotations[k] : k \in prefixed}
    IN  {result \in [names -> values] :
            \A n \in names :
                \E k \in prefixed : ParseKey(k) = n /\ result[n] = annotations[k]}

\* the annotation keys given to the collector: the prefix followed by a
\* remainder of letters and separators, and keys without the prefix
KeyChars == {"x", Separator}

CollectKeys ==
    {Prefix \o r : r \in StringsUpTo(KeyChars, MaxKeyLen)}
        \cup {<<"a", "p", "p">>,
              <<"x">> \o Prefix \o <<"x">>,
              SubSeq(Prefix, 1, Len(Prefix) - 1) \o <<Separator, "x">>}

CollectValues == {"v1", "v2"}

\* the subsets of S with at most n elements
RECURSIVE SubsetsUpTo(_, _)
SubsetsUpTo(S, n) ==
    IF n = 0 THEN {{}}
    ELSE LET smaller == SubsetsUpTo(S, n - 1)
         IN  smaller \cup {ks \cup {k} : ks \in smaller, k \in S}

\* the annotation maps with at most MaxAnnotations keys
CollectInputs ==
    UNION {[ks -> CollectValues] : ks \in SubsetsUpTo(CollectKeys, MaxAnnotations)}

CollectInit ==
    /\ cAnnotations \in CollectInputs
    /\ cResult = <<>>
    /\ cPc = "start"

CollectIdle ==
    /\ cAnnotations = <<>>
    /\ cResult = <<>>
    /\ cPc = "idle"

\* Collector.Collect(pod)
CallCollect ==
    /\ cPc = "start"
    /\ cResult' \in Collect(cAnnotations)
    /\ cPc' = "done"
    /\ UNCHANGED <<cAnnotations, parseVars, qualVars, identVars, handlerVars, pipeVars>>

(***************************************************************************)
(* Annotation values and the handlers' parsers.  A value is text that is   *)
(* not JSON, JSON that does not fit the configuration's shape, or a JSON   *)
(* object with its volumes and containers.                                 *)
(***************************************************************************)
Malformed == [json |-> "malformed", volumes |-> <<>>, containers |-> <<>>]

Mismatch == [json |-> "mismatch", volumes |-> <<>>, containers |-> <<>>]

JsonObject(volumes, containers) ==
    [json |-> "object", volumes |-> volumes, containers |-> containers]

\* one element of "containers": its name, ports and volume mounts
JsonContainer(name, ports, volumeMounts) ==
    [name |-> name, ports |-> ports, volumeMounts |-> volumeMounts]

HostPort == <<"h", "o", "s", "t", "-", "p", "o", "r", "t">>

MountVolume == <<"m", "o", "u", "n", "t", "-", "v", "o", "l", "u", "m", "e">>

\* what a parser returns: a configuration (NilConfig for none) and an error
ParseResult(config, err) == [config |-> config, err |-> err]

\* a parser that forgets the qualifier of the key
ParsePortConfig_NoQualifier(k, v) ==
    IF v.json # "object"
    THEN ParseResult(NilConfig, "failed to parse port configuration")
    ELSE ParseResult(
            PortConfig(<<>>,
                [i \in 1..Len(v.containers) |->
                    ContainerPortsConfig(v.containers[i].name, v.containers[i].ports)]),
            "nil")

\* the host-port parser on one key with the handler's feature name
ParsePortConfig(k, v) ==
    IF v.json # "object"
    THEN ParseResult(NilConfig, "failed to parse port configuration")
    ELSE ParseResult(
            PortConfig(k.qualifier,
                [i \in 1..Len(v.containers) |->
                    ContainerPortsConfig(v.containers[i].name, v.containers[i].ports)]),
            "nil")

\* a parser that takes any key for its own
parser_AnyName(annotations) ==
    IF DOMAIN annotations = {} THEN {ParseResult(NilConfig, "nil")}
    ELSE {ParsePortConfig(k, annotations[k]) : k \in DOMAIN annotations}

\* ports.parser: the results the loop over the map may return
parser(annotations) ==
    LET own == {k \in DOMAIN annotations : k.name = HostPort}
    IN  IF own = {} THEN {ParseResult(NilConfig, "nil")}
        ELSE {ParsePortConfig(k, annotations[k]) : k \in own}

\* a parser that returns a configuration also for an empty volumes list
ParseMountConfig_KeepEmpty(k, v) ==
    IF v.json # "object"
    THEN ParseResult(NilConfig, "invalid volume mount configuration")
    ELSE ParseResult(
            MountConfig(k.qualifier, v.volumes,
                [i \in 1..Len(v.containers) |->
                    [name |-> v.containers[i].name,
                     volumeMounts |-> v.containers[i].volumeMounts]]),
            "nil")

\* the mount-volume parser on one key with the handler's feature name
ParseMountConfig(k, v) ==
    IF v.json # "object"
    THEN ParseResult(NilConfig, "invalid volume mount configuration")
    ELSE IF Len(v.volumes) = 0 THEN ParseResult(NilConfig, "nil")
    ELSE ParseResult(
            MountConfig(k.qualifier, v.volumes,
                [i \in 1..Len(v.containers) |->
                    [name |-> v.containers[i].name,
                     volumeMounts |-> v.containers[i].volumeMounts]]),
            "nil")

\* volumes.volumeMountParser
volumeMountParser(annotations) ==
    LET own == {k \in DOMAIN annotations : k.name = MountVolume}
    IN  IF own = {} THEN {ParseResult(NilConfig, "nil")}
        ELSE {ParseMountConfig(k, annotations[k]) : k \in own}

\* handler.GetParser().Parse(annotations)
Parse(handler, annotations) ==
    IF handler = "host-port" THEN parser(annotations)
    ELSE volumeMountParser(annotations)

\* handler.Mutate(&pod.Spec, ordinal, config)
Mutate(handler, spec, ordinal, config) ==
    IF handler = "host-port" THEN HostPortMutate(spec, ordinal, config)
    ELSE {MountMutate(spec, ordinal, config)}

(***************************************************************************)
(* The admission pipeline (PodMutator.Default and applyHandlers)           *)
(***************************************************************************)
\* SetupPodWebhookWithManager registers the handlers in this order
RegisteredHandlers == <<"mount-volume", "host-port">>

HandlerLists == {RegisteredHandlers, <<"host-port", "mount-volume">>}

AnnotationKey(feature, qualifier) ==
    IF qualifier = <<>> THEN Prefix \o feature
    ELSE Prefix \o feature \o <<Separator>> \o qualifier

PortsValue ==
    JsonObject(<<>>,
        <<JsonContainer("web", <<ContainerPort("http", 8080, 30000)>>, <<>>)>>)

\* two host ports for one container
PortsValueTwo ==
    JsonObject(<<>>,
        <<JsonContainer("web", <<ContainerPort("http", 8080, 30000),
                                 ContainerPort("rpc", 9090, 31000)>>, <<>>)>>)

PortsValueRanged ==
    JsonObject(<<>>,
        <<JsonContainer("web", <<ContainerPort("rpc", 9090, 31000)>>, <<>>)>>)

MountValue ==
    JsonObject(<<Volume("v1", Ref("cfg"), NilRef)>>,
        <<JsonContainer("web", <<>>, <<VolumeMount("v1", "/etc/v1")>>)>>)

MountValueNoVolumes ==
    JsonObject(<<>>,
        <<JsonContainer("web", <<>>, <<VolumeMount("v1", "/etc/v1")>>)>>)

\* the annotations a pod may carry: each key with its possible values
AnnotationPool ==
    {<<AnnotationKey(HostPort, <<>>), PortsValue>>,
     <<AnnotationKey(HostPort, <<>>), PortsValueTwo>>,
     <<AnnotationKey(HostPort, <<>>), Malformed>>,
     <<AnnotationKey(HostPort, <<"0", "-", "1">>), PortsValueRanged>>,
     <<AnnotationKey(MountVolume, <<>>), MountValue>>,
     <<AnnotationKey(MountVolume, <<>>), MountValueNoVolumes>>,
     <<AnnotationKey(MountVolume, <<>>), Mismatch>>,
     <<AnnotationKey(MountVolume, <<"0", "-", "1">>), MountValue>>,
     <<AnnotationKey(<<"x">>, <<>>), PortsValue>>,
     <<<<"a", "p", "p">>, MountValue>>,
     <<HostPort, PortsValue>>}

\* the annotation maps with at most MaxAnnotations keys
AnnotationMaps ==
    LET keys   == {e[1] : e \in AnnotationPool}
        values == {e[2] : e \in AnnotationPool}
    IN  UNION {{m \in [ks -> values] : \A k \in ks : <<k, m[k]>> \in AnnotationPool} :
                ks \in {ks \in SUBSET keys : Cardinality(ks) <= MaxAnnotations}}

\* the pod-name labels: absent, a pod of the set w, malformed values
PipelineLabels ==
    {NoLabel, PodNameLabel(<<"w", "-", "x">>), PodNameLabel(<<"w", "-", "1", "x">>)}
        \cup {PodNameLabel(<<"w", "-">> \o <<DigitChars[o + 1]>>) : o \in 0..MaxOrdinal}

PipelinePodSpecs ==
    {PodSpec(<<Container("web", <<>>, <<>>, <<>>)>>, <<>>),
     PodSpec(<<Container("web", <<ContainerPort("http", 80, 7)>>, <<>>, <<>>),
               Container("db", <<>>, <<>>, <<>>)>>,
             <<Volume("data", NilRef, NilRef)>>)}

\* the mappings given to a parser: feature names of the handlers and of
\* no handler, with and without a qualifier, and the values they may carry
ParseNames == {HostPort, MountVolume, <<"x">>}

ParseKeys == {QualifiedName(q, n) : q \in HandlerQualifiers, n \in ParseNames}

ParseValues == {PortsValue, MountValue, MountValueNoVolumes, Malformed, Mismatch}

ParseInputs ==
    UNION {[ks -> ParseValues] :
            ks \in {ks \in SUBSET ParseKeys : Cardinality(ks) <= MaxAnnotations}}

NoParseResult == ParseResult(NilConfig, "none")

ParseInit ==
    /\ rHandler \in {"host-port", "mount-volume"}
    /\ rAnnotations \in ParseInputs
    /\ rResult = NoParseResult
    /\ rPc = "start"

ParseIdle ==
    /\ rHandler = "none"
    /\ rAnnotations = <<>>
    /\ rResult = NoParseResult
    /\ rPc = "idle"

\* HostPortHandler.GetParser().Parse(annotations)
CallParser ==
    /\ rPc = "start"
    /\ rHandler = "host-port"
    /\ rResult' \in parser(rAnnotations)
    /\ rPc' = "done"
    /\ UNCHANGED <<rHandler, rAnnotations, collectVars>>
    /\ UNCHANGED <<qualVars, identVars, handlerVars, pipeVars>>

\* MountHandler.GetParser().Parse(annotations)
CallVolumeMountParser ==
    /\ rPc = "start"
    /\ rHandler = "mount-volume"
    /\ rResult' \in volumeMountParser(rAnnotations)
    /\ rPc' = "done"
    /\ UNCHANGED <<rHandler, rAnnotations, collectVars>>
    /\ UNCHANGED <<qualVars, identVars, handlerVars, pipeVars>>

\* a second Parse(annotations) of the same parser on the same mapping
ParseAgain ==
    /\ rPc = "done"
    /\ rResult' \in Parse(rHandler, rAnnotations)
    /\ rPc' = "again"
    /\ UNCHANGED <<rHandler, rAnnotations, collectVars>>
    /\ UNCHANGED <<qualVars, identVars, handlerVars, pipeVars>>

Call(op, handler) == [op |-> op, handler |-> handler]

PipeIdle ==
    /\ mSsPodId = "anchored"
    /\ mHandlers = <<>>
    /\ pLabels = NoLabel
    /\ pAnnotations = <<>>
    /\ pSpec = NilPodSpec
    /\ pOriginal = NilPodSpec
    /\ pPc = "idle"
    /\ pOrdinal = 0
    /\ pCollected = <<>>
    /\ pIndex = 0
    /\ pConfig = NilConfig
    /\ pErr = "nil"
    /\ pCalls = <<>>
    /\ pResponse = "none"
    /\ requests = <<>>
    /\ registering = {}
    /\ pRange = <<>>

\* a mutator and a pod handed to Default
PipeInit ==
    /\ mSsPodId \in Identifiers
    /\ mHandlers \in HandlerLists
    /\ pLabels \in PipelineLabels
    /\ pAnnotations \in AnnotationMaps
    /\ pSpec \in PipelinePodSpecs
    /\ pOriginal = pSpec
    /\ pPc = "start"
    /\ pOrdinal = 0
    /\ pCollected = <<>>
    /\ pIndex = 0
    /\ pConfig = NilConfig
    /\ pErr = "nil"
    /\ pCalls = <<>>
    /\ pResponse = "none"
    /\ requests = <<>>
    /\ registering = {}
    /\ pRange = <<>>

\* a Default that goes on to applyHandlers whatever Extract returned
Default_Extract_IgnoreError ==
    /\ pPc = "start"
    /\ pPc' = "collect"
    /\ pOrdinal' = Extract(mSsPodId, pLabels).ordinal
    /\ UNCHANGED <<pCollected, pIndex, pConfig, pErr, pCalls>>
    /\ UNCHANGED <<pResponse, mutatorVars, podVars, qualVars, identVars, handlerVars, annotVars>>

\* Default: m.ssPodId.Extract(pod); an error ends the call with no error
Default_Extract ==
    /\ pPc = "start"
    /\ LET id == Extract(mSsPodId, pLabels)
       IN  IF id.err # "nil"
           THEN /\ pPc' = "notStatefulSet"
                /\ UNCHANGED pOrdinal
           ELSE /\ pPc' = "collect"
                /\ pOrdinal' = id.ordinal
    /\ UNCHANGED <<pCollected, pIndex, pConfig, pErr, pCalls>>
    /\ UNCHANGED <<pResponse, mutatorVars, podVars, qualVars, identVars, handlerVars, annotVars>>

\* where the loop over the handlers goes after handler number i
AfterHandler(i) == IF i >= Len(mHandlers) THEN "mutated" ELSE "parse"

\* applyHandlers: m.collector.Collect(pod), once
applyHandlers_Collect ==
    /\ pPc = "collect"
    /\ pCollected' \in Collect(pAnnotations)
    /\ pIndex' = 1
    /\ pPc' = AfterHandler(0)
    /\ UNCHANGED <<pOrdinal, pConfig, pErr, pCalls>>
    /\ UNCHANGED <<pResponse, mutatorVars, podVars, qualVars, identVars, handlerVars, annotVars>>

\* an applyHandlers that undoes the earlier handlers' work on a parse error
applyHandlers_Parse_Rollback ==
    /\ pPc = "parse"
    /\ \E r \in Parse(mHandlers[pIndex], pCollected) :
        /\ pCalls' = Append(pCalls, Call("parse", mHandlers[pIndex]))
        /\ IF r.err # "nil"
           THEN /\ pPc' = "failed"
                /\ pErr' = r.err
                /\ pSpec' = pOriginal
                /\ UNCHANGED <<pIndex, pConfig>>
           ELSE IF r.config.type = "nil"
           THEN /\ pPc' = AfterHandler(pIndex)
                /\ pIndex' = pIndex + 1
                /\ UNCHANGED <<pErr, pConfig, pSpec>>
           ELSE /\ pPc' = "mutate"
                /\ pConfig' = r.config
                /\ UNCHANGED <<pErr, pIndex, pSpec>>
    /\ UNCHANGED <<pOrdinal, pCollected>>
    /\ UNCHANGED <<pResponse, mutatorVars, pLabels, pAnnotations, pOriginal>>
    /\ UNCHANGED <<qualVars, identVars, handlerVars, annotVars>>

\* applyHandlers: handler.GetParser().Parse(annotations)
applyHandlers_Parse ==
    /\ pPc = "parse"
    /\ \E r \in Parse(mHandlers[pIndex], pCollected) :
        /\ pCalls' = Append(pCalls, Call("parse", mHandlers[pIndex]))
        /\ IF r.err # "nil"
           THEN /\ pPc' = "failed"
                /\ pErr' = r.err
                /\ UNCHANGED <<pIndex, pConfig>>
           ELSE IF r.config.type = "nil"
           THEN /\ pPc' = AfterHandler(pIndex)
                /\ pIndex' = pIndex + 1
                /\ UNCHANGED <<pErr, pConfig>>
           ELSE /\ pPc' = "mutate"
                /\ pConfig' = r.config
                /\ UNCHANGED <<pErr, pIndex>>
    /\ UNCHANGED <<pOrdinal, pCollected>>
    /\ UNCHANGED <<pResponse, mutatorVars, podVars, qualVars, identVars, handlerVars, annotVars>>

\* applyHandlers: handler.Mutate(&pod.Spec, ordinal, config)
applyHandlers_Mutate ==
    /\ pPc = "mutate"
    /\ \E r \in Mutate(mHandlers[pIndex], pSpec, pOrdinal, pConfig) :
        /\ pCalls' = Append(pCalls, Call("mutate", mHandlers[pIndex]))
        /\ pSpec' = r.spec
        /\ IF r.err # "nil"
           THEN /\ pPc' = "failed"
                /\ pErr' = r.err
                /\ UNCHANGED pIndex
           ELSE /\ pPc' = AfterHandler(pIndex)
                /\ pIndex' = pIndex + 1
                /\ UNCHANGED pErr
    /\ pConfig' = NilConfig
    /\ UNCHANGED <<pOrdinal, pCollected>>
    /\ UNCHANGED <<mutatorVars, pLabels, pAnnotations, pOriginal>>
    /\ UNCHANGED <<pResponse, qualVars, identVars, handlerVars, annotVars>>

\* the loop of applyHandlers from handler number i on, as a function of
\* its inputs: the pod specs and errors it may end with
RECURSIVE HandlersFrom(_, _, _, _, _)
HandlersFrom(handlers, i, collected, spec, ordinal) ==
    IF i > Len(handlers) THEN {MutateResult(spec, "nil")}
    ELSE UNION {
            IF r.err # "nil" THEN {MutateResult(spec, r.err)}
            ELSE IF r.config.type = "nil"
            THEN HandlersFrom(handlers, i + 1, collected, spec, ordinal)
            ELSE UNION {
                    IF m.err # "nil" THEN {m}
                    ELSE HandlersFrom(handlers, i + 1, collected, m.spec, ordinal) :
                        m \in Mutate(handlers[i], spec, ordinal, r.config)} :
                r \in Parse(handlers[i], collected)}

\* Default as a function of the mutator and the pod: the pod specs it may
\* leave, each with the error of applyHandlers
DefaultOutcomes(ssPodId, handlers, labels, annotations, spec) ==
    LET id == Extract(ssPodId, labels)
    IN  IF id.err # "nil" THEN {MutateResult(spec, "nil")}
        ELSE UNION {HandlersFrom(handlers, 1, collected, spec, id.ordinal) :
                        collected \in Collect(annotations)}

Next ==
    \/ Default_Extract
    \/ applyHandlers_Collect
    \/ applyHandlers_Parse
    \/ applyHandlers_Mutate

(***************************************************************************)
(* PodArgumentor serving requests at the same time: each call of Handle    *)
(* works on the pod of its request and on its own locals, and reads the    *)
(* handlers of the PodArgumentor, to which Register appends                *)
(***************************************************************************)
Requests == 1..MaxRequests

\* the pods of the requests: both features, no pod-name label, a value
\* that is not JSON after a valid one, two host ports under one of two
\* qualifiers
ConcurrentPods ==
    LET Pod(labels, annotations, spec) ==
            [labels |-> labels, annotations |-> annotations, spec |-> spec]
        web  == PodSpec(<<Container("web", <<>>, <<>>, <<>>)>>, <<>>)
        both == PodSpec(<<Container("web", <<ContainerPort("http", 80, 7)>>, <<>>, <<>>),
                          Container("db", <<>>, <<>>, <<>>)>>,
                        <<Volume("data", NilRef, NilRef)>>)
    IN  <<Pod(PodNameLabel(<<"w", "-", "1">>),
             AnnotationKey(HostPort, <<>>) :> PortsValue
                @@ AnnotationKey(MountVolume, <<>>) :> MountValue, both),
         Pod(NoLabel, AnnotationKey(MountVolume, <<>>) :> MountValue, both),
         Pod(PodNameLabel(<<"w", "-", "2">>),
             AnnotationKey(HostPort, <<>>) :> Malformed
                @@ AnnotationKey(MountVolume, <<>>) :> MountValue, web),
         Pod(PodNameLabel(<<"w", "-", "0">>),
             AnnotationKey(HostPort, <<>>) :> PortsValueTwo
                @@ AnnotationKey(HostPort, <<"0", "-", "1">>) :> PortsValueRanged, web)>>

\* a request as it arrives: its pod, and the locals of the call; handlers is
\* the slice the loop of applyHandlers ranges over
NewRequest(pod) ==
    [labels |-> pod.labels, annotations |-> pod.annotations,
     spec |-> pod.spec, original |-> pod.spec,
     pc |-> "start", ordinal |-> 0, collected |-> <<>>, handlers |-> <<>>,
     index |-> 0, config |-> NilConfig, err |-> "nil", response |-> "none"]

\* a PodArgumentor with no handler yet, and requests for different pods;
\* the requests differ in nothing but their pods, so they are numbered in
\* the order of their pods
InitConcurrent ==
    /\ mSsPodId = "anchored"
    /\ mHandlers = <<>>
    /\ registering = {}
    /\ \E pods \in [Requests -> DOMAIN ConcurrentPods] :
        /\ \A a, b \in Requests : a < b => pods[a] < pods[b]
        /\ requests = [r \in Requests |-> NewRequest(ConcurrentPods[pods[r]])]
    /\ pLabels = NoLabel
    /\ pAnnotations = <<>>
    /\ pSpec = NilPodSpec
    /\ pOriginal = NilPodSpec
    /\ pPc = "idle"
    /\ pOrdinal = 0
    /\ pCollected = <<>>
    /\ pIndex = 0
    /\ pConfig = NilConfig
    /\ pErr = "nil"
    /\ pCalls = <<>>
    /\ pResponse = "none"
    /\ pRange = <<>>
    /\ QualIdle /\ IdentIdle /\ HandlerIdle /\ CollectIdle /\ ParseIdle

\* Register(handler) of the PodArgumentor with applyHandlers, up to the read
\* of r.handlers: a nil handler is logged and dropped.  Register can be
\* called at any time and for any handler, one registered before included.
\* Nothing synchronizes the accesses to r.handlers: while another call is
\* about to write the slice, a reader finds the slice as it is or a mix of
\* the old and the new one, with which the code determines no outcome.
Register ==
    /\ Len(mHandlers) + Cardinality(registering) < MaxHandlers
    /\ \E handler \in {"nil", "mount-volume", "host-port"} :
        IF handler = "nil"
        THEN UNCHANGED registering
        ELSE \E read \in {mHandlers} \cup
                          (IF registering # {} THEN {<<"corrupted">>} ELSE {}) :
                registering' = registering \cup {[handler |-> handler, read |-> read]}
    /\ UNCHANGED <<mSsPodId, mHandlers, requests, pRange, podVars, callVars, pResponse>>
    /\ UNCHANGED <<qualVars, identVars, handlerVars, annotVars>>

\* Register(h) of the first PodArgumentor, up to the read of r.handlers: no
\* test for nil
OldRegister ==
    /\ Len(mHandlers) + Cardinality(registering) < MaxHandlers
    /\ \E h \in {"nil", "mount-volume", "host-port"} :
        \E read \in {mHandlers} \cup
                      (IF registering # {} THEN {<<"corrupted">>} ELSE {}) :
            registering' = registering \cup {[handler |-> h, read |-> read]}
    /\ UNCHANGED <<mSsPodId, mHandlers, requests, pRange, podVars, callVars, pResponse>>
    /\ UNCHANGED <<qualVars, identVars, handlerVars, annotVars>>

\* Register: r.handlers = append(r.handlers, handler), the write of the
\* slice the call read with the handler appended; two calls that read the
\* same slice leave the handler of the one that writes last.  A write
\* while another call is about to write can leave a mix of the two slices.
Register_Write ==
    /\ \E c \in registering :
        /\ registering' = registering \ {c}
        /\ mHandlers' \in
                {IF c.read = <<"corrupted">> THEN <<"corrupted">>
                 ELSE Append(c.read, c.handler)}
                \cup (IF registering # {c} THEN {<<"corrupted">>} ELSE {})
    /\ UNCHANGED <<mSsPodId, requests, pRange, podVars, callVars, pResponse>>
    /\ UNCHANGED <<qualVars, identVars, handlerVars, annotVars>>

\* the step of request r changes the request to next and nothing else;
\* when the call has returned, the pod, the error and the response stay for
\* the caller and the locals are gone
RequestStep(r, next) ==
    /\ requests' = [requests EXCEPT ![r] =
            IF next.pc = "responded"
            THEN [next EXCEPT !.ordinal = 0, !.collected = <<>>,
                              !.handlers = <<>>, !.index = 0]
            ELSE next]
    /\ UNCHANGED <<mSsPodId, mHandlers, registering, pRange, podVars, callVars, pResponse>>
    /\ UNCHANGED <<qualVars, identVars, handlerVars, annotVars>>

\* where a loop over the slice handlers goes after handler number i
AfterRequestHandler(handlers, i) ==
    IF i >= Len(handlers) THEN "mutated" ELSE "parse"

\* request r, Handle: r.ssPodId.Extract(pod); an error answers Allowed
Request_Extract(r) ==
    /\ requests[r].pc = "start"
    /\ LET id == Extract(mSsPodId, requests[r].labels)
       IN  RequestStep(r,
                IF id.err # "nil"
                THEN [requests[r] EXCEPT !.pc = "responded", !.response = "allowed"]
                ELSE [requests[r] EXCEPT !.pc = "collect", !.ordinal = id.ordinal])

\* request r, applyHandlers: r.collector.Collect(pod), and the slice
\* r.handlers as the range clause reads it, once; after a mixed read
\* nothing is determined
Request_Collect(r) ==
    /\ requests[r].pc = "collect"
    /\ \E collected \in Collect(requests[r].annotations) :
        \E read \in {mHandlers} \cup
                      (IF registering # {} THEN {<<"corrupted">>} ELSE {}) :
            RequestStep(r,
                IF read = <<"corrupted">>
                THEN [requests[r] EXCEPT !.collected = collected, !.pc = "corrupted"]
                ELSE [requests[r] EXCEPT
                        !.collected = collected,
                        !.handlers = read,
                        !.index = 1,
                        !.pc = AfterRequestHandler(read, 0)])

\* a Parse that leaves its result where every request reads it
Request_Parse_SharedConfig(r) ==
    /\ requests[r].pc = "parse"
    /\ \E p \in Parse(requests[r].handlers[requests[r].index], requests[r].collected) :
        /\ p.err = "nil" /\ p.config.type # "nil"
        /\ requests' = [q \in Requests |->
                IF q = r THEN [requests[q] EXCEPT !.pc = "mutate", !.config = p.config]
                ELSE [requests[q] EXCEPT !.config = p.config]]
    /\ UNCHANGED <<mSsPodId, mHandlers, registering, pRange, podVars, callVars, pResponse>>
    /\ UNCHANGED <<qualVars, identVars, handlerVars, annotVars>>

\* request r, applyHandlers: handler.GetParser().Parse(annotations)
Request_Parse(r) ==
    /\ requests[r].pc = "parse"
    /\ \E p \in Parse(requests[r].handlers[requests[r].index], requests[r].collected) :
        RequestStep(r,
            IF p.err # "nil"
            THEN [requests[r] EXCEPT !.pc = "failed", !.err = p.err]
            ELSE IF p.config.type = "nil"
            THEN [requests[r] EXCEPT
                    !.pc = AfterRequestHandler(requests[r].handlers, requests[r].index),
                    !.index = @ + 1]
            ELSE [requests[r] EXCEPT !.pc = "mutate", !.config = p.config])

\* request r, applyHandlers: handler.Mutate(&pod.Spec, ordinal, config)
Request_Mutate(r) ==
    /\ requests[r].pc = "mutate"
    /\ \E m \in Mutate(requests[r].handlers[requests[r].index], requests[r].spec,
                        requests[r].ordinal, requests[r].config) :
        RequestStep(r,
            IF m.err # "nil"
            THEN [requests[r] EXCEPT
                    !.spec = m.spec, !.config = NilConfig,
                    !.pc = "failed", !.err = m.err]
            ELSE [requests[r] EXCEPT
                    !.spec = m.spec, !.config = NilConfig,
                    !.pc = AfterRequestHandler(requests[r].handlers, requests[r].index),
                    !.index = @ + 1])

\* request r, Handle after applyHandlers: an error answers Allowed with no
\* patch, success answers the patch to the mutated pod
Request_Respond(r) ==
    /\ requests[r].pc \in {"failed", "mutated"}
    /\ RequestStep(r, [requests[r] EXCEPT
            !.pc = "responded",
            !.response = IF requests[r].pc = "failed" THEN "allowed" ELSE "patch"])

NextConcurrent ==
    \/ Register
    \/ Register_Write
    \/ \E r \in Requests :
        \/ Request_Extract(r)
        \/ Request_Collect(r)
        \/ Request_Parse(r)
        \/ Request_Mutate(r)
        \/ Request_Respond(r)

(***************************************************************************)
(* PodArgumentor.Handle, the admission handler that builds the response    *)
(* itself and runs the same applyHandlers                                  *)
(***************************************************************************)
\* Handle: r.ssPodId.Extract(pod); an error answers Allowed, no patch
Handle_Extract ==
    /\ pPc = "start"
    /\ LET id == Extract(mSsPodId, pLabels)
       IN  IF id.err # "nil"
           THEN /\ pPc' = "responded"
                /\ pResponse' = "allowed"
                /\ UNCHANGED pOrdinal
           ELSE /\ pPc' = "collect"
                /\ pOrdinal' = id.ordinal
                /\ UNCHANGED pResponse
    /\ UNCHANGED <<pCollected, pIndex, pConfig, pErr, pCalls>>
    /\ UNCHANGED <<mutatorVars, podVars, qualVars, identVars, handlerVars, annotVars>>

\* a Handle that answers the patch to the pod as the handlers left it
Handle_Respond_AlwaysPatch ==
    /\ pPc \in {"failed", "mutated"}
    /\ pResponse' = "patch"
    /\ pPc' = "responded"
    /\ UNCHANGED <<pOrdinal, pCollected, pIndex, pConfig, pErr, pCalls>>
    /\ UNCHANGED <<mutatorVars, podVars, qualVars, identVars, handlerVars, annotVars>>

\* Handle, after applyHandlers: an error answers Allowed with no patch, success
\* answers the patch from the request's object to the mutated pod
Handle_Respond ==
    /\ pPc \in {"failed", "mutated"}
    /\ pResponse' = (IF pPc = "failed" THEN "allowed" ELSE "patch")
    /\ pPc' = "responded"
    /\ UNCHANGED <<pOrdinal, pCollected, pIndex, pConfig, pErr, pCalls>>
    /\ UNCHANGED <<mutatorVars, podVars, qualVars, identVars, handlerVars, annotVars>>

NextArgumentor ==
    \/ Handle_Extract
    \/ applyHandlers_Collect
    \/ applyHandlers_Parse
    \/ applyHandlers_Mutate
    \/ Handle_Respond

(***************************************************************************)
(* The first PodArgumentor.Handle, with the loop over the handlers inline  *)
(***************************************************************************)
\* Handle: r.SSPodId.Extract(pod), and the slice r.handlers as the range
\* clause reads it, once; after a mixed read nothing is determined
OldHandle_Extract ==
    /\ pPc = "start"
    /\ LET id == Extract(mSsPodId, pLabels)
       IN  IF id.err # "nil"
           THEN /\ pPc' = "responded"
                /\ pResponse' = "allowed"
                /\ UNCHANGED <<pOrdinal, pIndex, pRange>>
           ELSE \E read \in {mHandlers} \cup
                             (IF registering # {} THEN {<<"corrupted">>} ELSE {}) :
                /\ pOrdinal' = id.ordinal
                /\ UNCHANGED pResponse
                /\ IF read = <<"corrupted">>
                   THEN /\ pPc' = "corrupted"
                        /\ UNCHANGED <<pIndex, pRange>>
                   ELSE /\ pPc' = AfterRequestHandler(read, 0)
                        /\ pIndex' = 1
                        /\ pRange' = read
    /\ UNCHANGED <<pCollected, pConfig, pErr, pCalls>>
    /\ UNCHANGED <<mSsPodId, mHandlers, requests, registering>>
    /\ UNCHANGED <<podVars, qualVars, identVars, handlerVars, annotVars>>

\* Handle: h.GetParser().Parse(r.Collector.Collect(pod)); an error or no
\* configuration answers Allowed; a nil handler has no GetParser to call
OldHandle_Parse ==
    /\ pPc = "parse"
    /\ IF pRange[pIndex] = "nil"
       THEN /\ pPc' = "panicked"
            /\ UNCHANGED <<pCollected, pCalls, pConfig, pErr, pResponse>>
       ELSE \E collected \in Collect(pAnnotations) :
            \E r \in Parse(pRange[pIndex], collected) :
                /\ pCollected' = collected
                /\ pCalls' = Append(pCalls, Call("parse", pRange[pIndex]))
                /\ IF r.err # "nil" \/ r.config.type = "nil"
                   THEN /\ pPc' = "responded"
                        /\ pResponse' = "allowed"
                        /\ pErr' = r.err
                        /\ UNCHANGED pConfig
                   ELSE /\ pPc' = "mutate"
                        /\ pConfig' = r.config
                        /\ UNCHANGED <<pErr, pResponse>>
    /\ UNCHANGED <<pOrdinal, pIndex>>
    /\ UNCHANGED <<mutatorVars, podVars, qualVars, identVars, handlerVars, annotVars>>

\* Handle: h.Mutate(&pod.Spec, ordinal, c); an error answers Allowed
OldHandle_Mutate ==
    /\ pPc = "mutate"
    /\ \E r \in Mutate(pRange[pIndex], pSpec, pOrdinal, pConfig) :
        /\ pCalls' = Append(pCalls, Call("mutate", pRange[pIndex]))
        /\ pSpec' = r.spec
        /\ IF r.err # "nil"
           THEN /\ pPc' = "responded"
                /\ pResponse' = "allowed"
                /\ pErr' = r.err
                /\ UNCHANGED pIndex
           ELSE /\ pPc' = AfterRequestHandler(pRange, pIndex)
                /\ pIndex' = pIndex + 1
                /\ UNCHANGED <<pErr, pResponse>>
    /\ pConfig' = NilConfig
    /\ UNCHANGED <<pOrdinal, pCollected>>
    /\ UNCHANGED <<mutatorVars, pLabels, pAnnotations, pOriginal>>
    /\ UNCHANGED <<qualVars, identVars, handlerVars, annotVars>>

\* Handle: admission.PatchResponseFromRaw(request.Object.Raw, marshaledPod)
OldHandle_Respond ==
    /\ pPc = "mutated"
    /\ pResponse' = "patch"
    /\ pPc' = "responded"
    /\ UNCHANGED <<pOrdinal, pCollected, pIndex, pConfig, pErr, pCalls>>
    /\ UNCHANGED <<mutatorVars, podVars, qualVars, identVars, handlerVars, annotVars>>

NextOldHandle ==
    \/ OldRegister
    \/ Register_Write
    \/ OldHandle_Extract
    \/ OldHandle_Parse
    \/ OldHandle_Mutate
    \/ OldHandle_Respond

Init == PipeInit /\ QualIdle /\ IdentIdle /\ HandlerIdle /\ CollectIdle /\ ParseIdle

Spec == Init /\ [][Next]_vars

\* PodArgumentor.Handle with applyHandlers
SpecArgumentor == Init /\ [][NextArgumentor]_vars

\* the first PodArgumentor.Handle
InitOldHandle ==
    /\ mSsPodId \in Identifiers
    /\ mHandlers = <<>>
    /\ registering = {}
    /\ requests = <<>>
    /\ pLabels \in PipelineLabels
    /\ pAnnotations \in AnnotationMaps
    /\ pSpec \in PipelinePodSpecs
    /\ pOriginal = pSpec
    /\ pPc = "start"
    /\ pOrdinal = 0
    /\ pCollected = <<>>
    /\ pIndex = 0
    /\ pConfig = NilConfig
    /\ pErr = "nil"
    /\ pCalls = <<>>
    /\ pResponse = "none"
    /\ pRange = <<>>
    /\ QualIdle /\ IdentIdle /\ HandlerIdle /\ CollectIdle /\ ParseIdle

SpecOldHandle == InitOldHandle /\ [][NextOldHandle]_vars

\* the matcher alone
InitQual == QualInit /\ IdentIdle /\ HandlerIdle /\ PipeIdle /\ CollectIdle /\ ParseIdle

SpecQual == InitQual /\ [][CallQualifier]_vars

\* the identity extractor alone
InitIdent == IdentInit /\ QualIdle /\ HandlerIdle /\ PipeIdle /\ CollectIdle /\ ParseIdle

NextIdent == CallExtract \/ CallExtractUnanchored

SpecIdent == InitIdent /\ [][NextIdent]_vars

\* a handler's Mutate alone
InitHandler == HandlerInit /\ QualIdle /\ IdentIdle /\ PipeIdle /\ CollectIdle /\ ParseIdle

NextHandler == CallHostPortMutate \/ CallMountMutate

SpecHandler == InitHandler /\ [][NextHandler]_vars

\* requests served at the same time
SpecConcurrent == InitConcurrent /\ [][NextConcurrent]_vars

\* a handler's Mutate called repeatedly
NextRepeat ==
    \/ CallHostPortMutate
    \/ CallMountMutate
    \/ HostPortMutateAgain
    \/ MountMutateAgain
    \/ NextPod

InitRepeat == RepeatInit /\ QualIdle /\ IdentIdle /\ PipeIdle /\ CollectIdle /\ ParseIdle

SpecRepeat == InitRepeat /\ [][NextRepeat]_vars

\* the collector alone
InitCollect ==
    CollectInit /\ ParseIdle /\ QualIdle /\ IdentIdle /\ HandlerIdle /\ PipeIdle

SpecCollect == InitCollect /\ [][CallCollect]_vars

\* a parser alone
InitParse ==
    ParseInit /\ CollectIdle /\ QualIdle /\ IdentIdle /\ HandlerIdle /\ PipeIdle

NextParse == CallParser \/ CallVolumeMountParser \/ ParseAgain

SpecParse == InitParse /\ [][NextParse]_vars

(***************************************************************************)
(* Properties of the matcher                                               *)
(***************************************************************************)
\* the numbers whose numerals the properties range over
MaxNumber == 12

\* the decimal numeral of n, as a sequence of characters
RECURSIVE DecimalChars(_)
DecimalChars(n) ==
    IF n < 10 THEN <<DigitChars[n + 1]>>
    ELSE DecimalChars(n \div 10) \o <<DigitChars[(n % 10) + 1]>>

\* the numerals of n, plain and with one leading zero, paired with n
Numerals ==
    {<<[i \in 1..z |-> "0"] \o DecimalChars(n), n>> : z \in 0..1, n \in 0..MaxNumber}

\* a string that is a non-empty run of decimal digits
IsNumeral(s) ==
    Len(s) > 0 /\ {s[i] : i \in 1..Len(s)} \subseteq {DigitChars[d] : d \in 1..10}

HyphenCount(s) == Cardinality({i \in 1..Len(s) : s[i] = "-"})

\* the four forms N, N-M, N-, -M
IsQualifierForm(s) ==
    \/ IsNumeral(s)
    \/ /\ HyphenCount(s) = 1
       /\ \E i \in 1..Len(s) :
            /\ s[i] = "-"
            /\ i > 1 => IsNumeral(SubSeq(s, 1, i - 1))
            /\ i < Len(s) => IsNumeral(SubSeq(s, i + 1, Len(s)))
            /\ Len(s) > 1

\* C4: for a qualifier "a-b" the matcher answers exactly a <= ordinal <= b;
\* with a > b it answers false for every ordinal.
C4_RangeQualifier ==
    qPc = "done" =>
        \A na \in Numerals, nb \in Numerals :
            qQualifier = na[1] \o <<"-">> \o nb[1] =>
                /\ qResult = (na[2] <= qOrdinal /\ qOrdinal <= nb[2])
                /\ na[2] > nb[2] => ~qResult

C4_Witness ==
    /\ qPc = "done"
    /\ qQualifier = <<"1", "-", "2">>
    /\ qOrdinal = 2
    /\ qResult

\* C5: the empty qualifier matches every ordinal, the numeral of the ordinal
\* matches, the numeral of ordinal + 1 does not, and a numeral N matches
\* exactly the ordinal N.
C5_EmptyAndExactQualifier ==
    qPc = "done" =>
        /\ qQualifier = <<>> => qResult
        /\ qQualifier = DecimalChars(qOrdinal) => qResult
        /\ qQualifier = DecimalChars(qOrdinal + 1) => ~qResult
        /\ \A n \in Numerals : qQualifier = n[1] => (qResult <=> qOrdinal = n[2])

C5_Witness ==
    /\ qPc = "done"
    /\ qOrdinal = 2
    /\ qQualifier = DecimalChars(qOrdinal + 1)
    /\ ~qResult

\* C6: "N-" matches exactly the ordinals >= N and "-N" exactly those <= N.
C6_OpenEndedQualifier ==
    qPc = "done" =>
        \A n \in Numerals :
            /\ qQualifier = n[1] \o <<"-">> => (qResult <=> qOrdinal >= n[2])
            /\ qQualifier = <<"-">> \o n[1] => (qResult <=> qOrdinal <= n[2])

C6_Witness ==
    /\ qPc = "done"
    /\ qQualifier = <<"1", "-">>
    /\ qOrdinal = 0
    /\ ~qResult

\* C7: the matcher answers with a boolean for every input, and with false
\* for every non-empty qualifier that has none of the four forms.
C7_MalformedQualifier ==
    qPc = "done" =>
        /\ qResult \in BOOLEAN
        /\ (qQualifier # <<>> /\ ~IsQualifierForm(qQualifier)) => ~qResult

C7_Witness ==
    /\ qPc = "done"
    /\ qQualifier = <<"1", "-", "-", "2">>
    /\ qOrdinal = 1
    /\ ~qResult


(***************************************************************************)
(* Properties of the identity extractor                                    *)
(***************************************************************************)
RECURSIVE Pow10(_)
Pow10(k) == IF k = 0 THEN 1 ELSE 10 * Pow10(k - 1)

RECURSIVE PositionalSum(_, _)
PositionalSum(d, i) ==
    IF i > Len(d) THEN 0
    ELSE DigitValue(d[i]) * Pow10(Len(d) - i) + PositionalSum(d, i + 1)

\* the integer a run of decimal digits denotes
NumeralValue(d) == PositionalSum(d, 1)

\* <non-empty name>-<digits>, the digits reaching the end of the string
IsPodNameForm(v) ==
    \E k \in 2..(Len(v) - 1) : v[k] = "-" /\ IsNumeral(SubSeq(v, k + 1, Len(v)))

C9_ExtractMalformed ==
    (iPc = "done" /\ iLabels.has /\ ~IsPodNameForm(iLabels.value)) =>
        /\ iResult.res.err \in {"ErrInvalidLabelValue", "unexpected label value"}
        /\ iResult.res.name = <<>>
        /\ iResult.res.ordinal = -1

\* the same statement for the implementation with the anchored expression
C9_AnchoredOnly ==
    (iPc = "done" /\ iLabels.has /\ ~IsPodNameForm(iLabels.value)
        /\ iResult.impl = "anchored") =>
        /\ iResult.res.err = "ErrInvalidLabelValue"
        /\ iResult.res.name = <<>>
        /\ iResult.res.ordinal = -1

(***************************************************************************)
(* Properties of the handlers                                              *)
(***************************************************************************)
\* whether the ordinal is in the scope of a qualifier of HandlerQualifiers
InScope(ordinal, qualifier) ==
    \/ qualifier = <<>>
    \/ qualifier = <<"0", "-", "1">> /\ ordinal \in {0, 1}

RECURSIVE Flatten(_)
Flatten(seqs) == IF seqs = <<>> THEN <<>> ELSE Head(seqs) \o Flatten(Tail(seqs))

IsRequested(p) == p.hostPort > 0

\* the declared port entries with a host port that apply to a container
\* name, in declaration order
RequestedPorts(containerConfigs, name) ==
    Flatten([k \in 1..Len(containerConfigs) |->
                IF containerConfigs[k].name = name
                THEN SelectSeq(containerConfigs[k].ports, IsRequested)
                ELSE <<>>])

NamesOf(ports) == {ports[j].name : j \in 1..Len(ports)}

FirstNamed(ports, name) ==
    ports[CHOOSE j \in 1..Len(ports) :
            ports[j].name = name /\ \A k \in 1..(j - 1) : ports[k].name # name]

LastNamed(ports, name) ==
    ports[CHOOSE j \in 1..Len(ports) :
            ports[j].name = name /\ \A k \in (j + 1)..Len(ports) : ports[k].name # name]

\* the entries that open a name the container does not have yet
RECURSIVE NewEntries(_, _)
NewEntries(entries, known) ==
    IF entries = <<>> THEN <<>>
    ELSE IF Head(entries).name \in known THEN NewEntries(Tail(entries), known)
    ELSE <<Head(entries)>> \o NewEntries(Tail(entries), known \cup {Head(entries).name})

HostPortApplied ==
    /\ hPc = "done"
    /\ hHandler = "host-port"
    /\ hCfg.type = "portConfig"
    /\ ~hCfg.body.nil
    /\ ~hPre.nil
    /\ InScope(hOrdinal, hCfg.qualifier)

\* C1: with a matching qualifier, for every container of the pod and every
\* declared entry with hostPort > 0 under the container's name, the first
\* port of that name carries declared hostPort + ordinal (the last entry of
\* a name deciding); a port the container had keeps its place and its other
\* fields, a new name is appended once as a copy of its declared entry, and
\* entries with hostPort <= 0 change no port and no PORT_ variable.
C1_HostPortMutatePorts ==
    HostPortApplied =>
        /\ hErr = "nil"
        /\ Len(hSpec.containers) = Len(hPre.containers)
        /\ \A i \in 1..Len(hPre.containers) :
            LET pre     == hPre.containers[i]
                post    == hSpec.containers[i]
                entries == RequestedPorts(hCfg.body.containers, pre.name)
                added   == NewEntries(entries, NamesOf(pre.ports))
                declared == Flatten([k \in 1..Len(hCfg.body.containers) |->
                                IF hCfg.body.containers[k].name = pre.name
                                THEN hCfg.body.containers[k].ports ELSE <<>>])
            IN  /\ post.name = pre.name
                /\ Len(post.ports) = Len(pre.ports) + Len(added)
                /\ \A n \in NamesOf(entries) :
                    FirstNamed(post.ports, n).hostPort
                        = LastNamed(entries, n).hostPort + hOrdinal
                /\ \A j \in 1..Len(pre.ports) :
                    /\ post.ports[j].name = pre.ports[j].name
                    /\ post.ports[j].containerPort = pre.ports[j].containerPort
                    /\ post.ports[j].hostPort # pre.ports[j].hostPort =>
                        /\ pre.ports[j].name \in NamesOf(entries)
                        /\ \A k \in 1..(j - 1) : pre.ports[k].name # pre.ports[j].name
                /\ \A a \in 1..Len(added) :
                    post.ports[Len(pre.ports) + a] =
                        [added[a] EXCEPT !.hostPort =
                            LastNamed(entries, added[a].name).hostPort + hOrdinal]
                /\ \A n \in NamesOf(declared) \ NamesOf(entries) :
                    LET IsVar(e) == e.name = "PORT_" \o n
                    IN  SelectSeq(post.env, IsVar) = SelectSeq(pre.env, IsVar)

C1_Witness ==
    /\ HostPortApplied
    /\ hOrdinal = 1
    /\ hCfg.qualifier = <<"0", "-", "1">>
    /\ hCfg.body.containers =
        <<ContainerPortsConfig("web",
            <<ContainerPort("http", 8080, 30000), ContainerPort("rpc", 9090, 30000)>>)>>
    /\ hPre.containers[1].ports = <<ContainerPort("http", 80, 7)>>
    /\ hSpec.containers[1].ports =
        <<ContainerPort("http", 80, 30001), ContainerPort("rpc", 9090, 30001)>>

MountApplied ==
    /\ hPc = "done"
    /\ hHandler = "mount-volume"
    /\ hCfg.type = "mountConfig"
    /\ ~hCfg.body.nil
    /\ ~hPre.nil
    /\ InScope(hOrdinal, hCfg.qualifier)

\* the text "-<ordinal>" for a one-digit ordinal
DashOrdinal(ordinal) ==
    "-" \o <<"0", "1", "2", "3", "4", "5", "6", "7", "8", "9">>[ordinal + 1]

\* C2: with a matching qualifier the declared volumes are appended to the
\* pod's volumes in declared order; a referenced ConfigMap or Secret name is
\* the declared name followed by "-<ordinal>", a volume that references
\* neither is appended as declared, and the pod's own volumes are unchanged.
C2_MountMutateVolumes ==
    MountApplied =>
        LET declared == hCfg.body.volumes
            n        == Len(hPre.volumes)
        IN  /\ hErr = "nil"
            /\ Len(hSpec.volumes) = n + Len(declared)
            /\ SubSeq(hSpec.volumes, 1, n) = hPre.volumes
            /\ \A k \in 1..Len(declared) :
                LET d == declared[k]
                    v == hSpec.volumes[n + k]
                IN  /\ v.name = d.name
                    /\ v.configMap.set = d.configMap.set
                    /\ v.secret.set = d.secret.set
                    /\ d.configMap.set =>
                        v.configMap.name = d.configMap.name \o DashOrdinal(hOrdinal)
                    /\ d.secret.set =>
                        v.secret.name = d.secret.name \o DashOrdinal(hOrdinal)
                    /\ (~d.configMap.set /\ ~d.secret.set) => v = d

C2_Witness ==
    /\ MountApplied
    /\ hOrdinal = 1
    /\ hPre.volumes = <<Volume("data", NilRef, NilRef)>>
    /\ hCfg.body.volumes = <<Volume("v1", Ref("cfg"), NilRef), Volume("v2", NilRef, Ref("sec"))>>
    /\ hSpec.volumes =
        <<Volume("data", NilRef, NilRef), Volume("v1", Ref("cfg-1"), NilRef),
          Volume("v2", NilRef, Ref("sec-1"))>>

\* a configuration of the handler that was called
OwnConfig ==
    \/ hHandler = "host-port" /\ hCfg.type = "portConfig"
    \/ hHandler = "mount-volume" /\ hCfg.type = "mountConfig"

\* a configuration that changes the pod when it applies: the host-port
\* handler's names a container of the pod, the mount-volume handler's
\* declares a volume
Effective ==
    /\ ~hCfg.body.nil
    /\ ~hPre.nil
    /\ \/ /\ hHandler = "host-port"
          /\ \E k \in 1..Len(hCfg.body.containers), i \in 1..Len(hPre.containers) :
                hCfg.body.containers[k].name = hPre.containers[i].name
       \/ /\ hHandler = "mount-volume"
          /\ hCfg.body.volumes # <<>>

\* C3: for both handlers, an ordinal outside the qualifier makes Mutate
\* return success with the pod spec unchanged, also with a nil
\* configuration body; with an ordinal inside the qualifier the same pod and
\* configuration are mutated.
C3_QualifierGatesMutate ==
    (hPc = "done" /\ OwnConfig) =>
        /\ ~InScope(hOrdinal, hCfg.qualifier) => (hErr = "nil" /\ hSpec = hPre)
        /\ (InScope(hOrdinal, hCfg.qualifier) /\ Effective) =>
                (hErr = "nil" /\ hSpec # hPre)

C3_Witness ==
    /\ hPc = "done"
    /\ hHandler = "mount-volume"
    /\ hCfg.type = "mountConfig"
    /\ hCfg.body.nil
    /\ hCfg.qualifier = <<"0", "-", "1">>
    /\ hOrdinal = 2
    /\ hErr = "nil"
    /\ hSpec = hPre

\* the identity extractor of the mutator rejects the pod
ExtractionFails == Extract(mSsPodId, pLabels).err # "nil"

\* C10: when identity extraction fails, whatever annotations the pod
\* carries, Default never reaches applyHandlers: nothing is collected, no
\* parser and no Mutate is called, the pod spec stays as it was handed in
\* and no error is reported.
C10_NoIdentityNoHandlers ==
    ExtractionFails =>
        /\ pPc \in {"start", "notStatefulSet"}
        /\ pCalls = <<>>
        /\ pCollected = <<>>
        /\ pSpec = pOriginal
        /\ pErr = "nil"

C10_Witness ==
    /\ pPc = "notStatefulSet"
    /\ pLabels = PodNameLabel(<<"w", "-", "x">>)
    /\ mHandlers = RegisteredHandlers
    /\ AnnotationKey(HostPort, <<>>) \in DOMAIN pAnnotations
    /\ pAnnotations[AnnotationKey(HostPort, <<>>)] = PortsValue
    /\ Len(pSpec.containers) = 2
    /\ pSpec = pOriginal

(***************************************************************************)
(* Properties of the collector and the parsers                             *)
(***************************************************************************)
\* the key is the reserved prefix followed by the remainder r
IsPrefixed(k, r) == k = <<"s", "p", "o", "d", "i", "t", "o", "r", ".", "i", "o", "/">> \o r

\* the remainders of the keys of an annotation map that carry the prefix
Remainders(annotations) ==
    {r \in StringsUpTo(KeyChars, MaxKeyLen + 1) :
        \E k \in DOMAIN annotations : IsPrefixed(k, r)}

\* (feature, qualifier) of a remainder: split at its last "_", if any
SplitRemainder(r) ==
    IF \A p \in 1..Len(r) : r[p] # "_"
    THEN [name |-> r, qualifier |-> <<>>]
    ELSE LET p == CHOOSE p \in 1..Len(r) :
                    r[p] = "_" /\ \A j \in (p + 1)..Len(r) : r[j] # "_"
         IN  [name |-> SubSeq(r, 1, p - 1), qualifier |-> SubSeq(r, p + 1, Len(r))]

\* C11: Collect always returns a map; its entries are exactly the
\* (feature, qualifier) pairs of the keys that start with "spoditor.io/",
\* the remainder split at its last "_" (no "_": the whole remainder is the
\* feature and the qualifier is empty), and an entry's value is the value
\* of an annotation whose key gives that pair.
C11_CollectPrefixedKeys ==
    /\ cPc = "start" => Collect(cAnnotations) # {}
    /\ cPc = "done" =>
        /\ DOMAIN cResult = {SplitRemainder(r) : r \in Remainders(cAnnotations)}
        /\ \A n \in DOMAIN cResult :
            \E r \in Remainders(cAnnotations) :
                /\ SplitRemainder(r) = n
                /\ cResult[n] = cAnnotations[Prefix \o r]
        /\ \A r \in Remainders(cAnnotations) :
            (\A r2 \in Remainders(cAnnotations) :
                SplitRemainder(r2) = SplitRemainder(r) => r2 = r)
                => cResult[SplitRemainder(r)] = cAnnotations[Prefix \o r]

C11_Witness ==
    /\ cPc = "done"
    /\ DOMAIN cAnnotations = {Prefix \o <<"_", "x", "_">>, <<"a", "p", "p">>}
    /\ DOMAIN cResult = {QualifiedName(<<>>, <<"_", "x">>)}
    /\ cResult[QualifiedName(<<>>, <<"_", "x">>)] = cAnnotations[Prefix \o <<"_", "x", "_">>]

(***************************************************************************)
(* Properties of the handlers: environment, mounts, missing containers     *)
(***************************************************************************)
Digit(d) == <<"0", "1", "2", "3", "4", "5", "6", "7", "8", "9">>[d + 1]

\* the decimal numeral of a number of one digit, or of five digits
Decimal(n) ==
    IF n < 10 THEN Digit(n)
    ELSE Digit(n \div 10000) \o Digit((n \div 1000) % 10) \o Digit((n \div 100) % 10)
            \o Digit((n \div 10) % 10) \o Digit(n % 10)

EnvNames(env) == {env[j].name : j \in 1..Len(env)}

\* the value of the first variable of that name
EnvValue(env, name) ==
    env[CHOOSE j \in 1..Len(env) :
            env[j].name = name /\ \A k \in 1..(j - 1) : env[k].name # name].value

\* the containers a configuration names
ConfiguredNames == {hCfg.body.containers[k].name : k \in 1..Len(hCfg.body.containers)}

\* C12: after the host-port Mutate with a matching qualifier, every
\* container the configuration names has POD_ORDINAL = decimal ordinal and,
\* for every processed port (hostPort > 0), PORT_<name> = decimal effective
\* host port; a name the container had is replaced where it stood and no
\* entry is added for it, a new name is appended once, and every other
\* variable keeps its value and position.
C12_HostPortEnvUpsert ==
    HostPortApplied =>
        \A i \in 1..Len(hPre.containers) :
            LET pre     == hPre.containers[i]
                post    == hSpec.containers[i]
                entries == RequestedPorts(hCfg.body.containers, pre.name)
                written == {"POD_ORDINAL"} \cup {"PORT_" \o n : n \in NamesOf(entries)}
                fresh   == written \ EnvNames(pre.env)
            IN  IF pre.name \notin ConfiguredNames THEN post.env = pre.env
                ELSE
                    /\ EnvValue(post.env, "POD_ORDINAL") = Decimal(hOrdinal)
                    /\ \A n \in NamesOf(entries) :
                        EnvValue(post.env, "PORT_" \o n)
                            = Decimal(LastNamed(entries, n).hostPort + hOrdinal)
                    /\ Len(post.env) = Len(pre.env) + Cardinality(fresh)
                    /\ \A j \in 1..Len(pre.env) :
                        /\ post.env[j].name = pre.env[j].name
                        /\ pre.env[j].name \notin written => post.env[j] = pre.env[j]
                    /\ {post.env[j].name : j \in (Len(pre.env) + 1)..Len(post.env)} = fresh

C12_Witness ==
    /\ HostPortApplied
    /\ hOrdinal = 2
    /\ hCfg.body.containers =
        <<ContainerPortsConfig("web", <<ContainerPort("http", 8080, 30000)>>)>>
    /\ hPre.containers[1].env = <<EnvVar("A", "1"), EnvVar("PORT_http", "stale")>>
    /\ hSpec.containers[1].env =
        <<EnvVar("A", "1"), EnvVar("PORT_http", "30002"), EnvVar("POD_ORDINAL", "2")>>

\* the declared mounts of the groups with that container name, in declared order
DeclaredMounts(name) ==
    Flatten([k \in 1..Len(hCfg.body.containers) |->
                IF hCfg.body.containers[k].name = name
                THEN hCfg.body.containers[k].volumeMounts ELSE <<>>])

\* C13: the mount-volume Mutate with a matching qualifier appends each
\* declared mount group to the mounts of exactly the containers whose name
\* is the group's name: such a container keeps its mounts first and grows by
\* the declared number, a container of any other name keeps its mounts, and
\* nothing else of a container changes.
C13_MountMutateMounts ==
    MountApplied =>
        /\ hErr = "nil"
        /\ Len(hSpec.containers) = Len(hPre.containers)
        /\ \A i \in 1..Len(hPre.containers) :
            LET pre  == hPre.containers[i]
                post == hSpec.containers[i]
                own  == DeclaredMounts(pre.name)
            IN  /\ post = [pre EXCEPT !.volumeMounts = pre.volumeMounts \o own]
                /\ Len(post.volumeMounts) = Len(pre.volumeMounts) + Len(own)
                /\ pre.name \notin ConfiguredNames => post = pre

C13_Witness ==
    /\ MountApplied
    /\ Len(hPre.containers) = 2
    /\ hPre.containers[1].volumeMounts = <<VolumeMount("data", "/data")>>
    /\ hPre.containers[2].name = "db"
    /\ hCfg.body.containers =
        <<[name |-> "web",
           volumeMounts |-> <<VolumeMount("v1", "/etc/v1"), VolumeMount("v2", "/etc/v2")>>]>>
    /\ hSpec.containers[1].volumeMounts =
        <<VolumeMount("data", "/data"), VolumeMount("v1", "/etc/v1"),
          VolumeMount("v2", "/etc/v2")>>
    /\ hSpec.containers[2] = hPre.containers[2]

\* the names of the pod's containers before the call
PodContainerNames == {hPre.containers[i].name : i \in 1..Len(hPre.containers)}

\* the handler ran on its own configuration, the qualifier matching, and
\* the configuration names a container and only containers the pod lacks
OnlyMissingContainers ==
    /\ hPc = "done"
    /\ OwnConfig
    /\ ~hCfg.body.nil
    /\ ~hPre.nil
    /\ InScope(hOrdinal, hCfg.qualifier)
    /\ ConfiguredNames # {}
    /\ ConfiguredNames \cap PodContainerNames = {}

\* C14 as stated: a configuration that names a container the pod lacks makes
\* Mutate, of either handler, return no error and leave the pod spec as it was.
C14_MissingContainerNoMutation ==
    OnlyMissingContainers => (hErr = "nil" /\ hSpec = hPre)

\* C14: a configuration that names only containers the pod lacks makes
\* Mutate return no error and leave every container as it was, none added;
\* the host-port handler leaves the whole pod spec unchanged, the
\* mount-volume handler still appends the declared volumes to the pod.
C14_MissingContainerSkipped ==
    OnlyMissingContainers =>
        /\ hErr = "nil"
        /\ hSpec.containers = hPre.containers
        /\ hHandler = "host-port" => hSpec = hPre
        /\ hHandler = "mount-volume" =>
            /\ Len(hSpec.volumes) = Len(hPre.volumes) + Len(hCfg.body.volumes)
            /\ SubSeq(hSpec.volumes, 1, Len(hPre.volumes)) = hPre.volumes

C14_Witness ==
    /\ OnlyMissingContainers
    /\ hHandler = "mount-volume"
    /\ PodContainerNames = {"web"}
    /\ ConfiguredNames = {"db"}
    /\ hCfg.body.containers[1].volumeMounts # <<>>
    /\ hCfg.body.volumes = <<Volume("v3", NilRef, NilRef)>>
    /\ hSpec.containers = hPre.containers
    /\ hSpec.volumes = hPre.volumes \o <<Volume("v3", NilRef, NilRef)>>

\* the feature name of the parser that was called
OwnFeature == IF rHandler = "host-port" THEN HostPort ELSE MountVolume

\* the keys of the mapping that carry the parser's feature name
OwnKeys == {k \in DOMAIN rAnnotations : k.name = OwnFeature}

Absent(r) == r.err = "nil" /\ r.config.type = "nil"

Failed(r) == r.err # "nil" /\ r.config.type = "nil"

\* a configuration of the parser's handler with the qualifier of the key
Configured(r, k) ==
    /\ r.err = "nil"
    /\ r.config.type = (IF rHandler = "host-port" THEN "portConfig" ELSE "mountConfig")
    /\ r.config.qualifier = k.qualifier
    /\ ~r.config.body.nil

\* C15 as stated: no key with the feature name gives absent; a key with the
\* feature name gives an error and no configuration when its value does not
\* deserialize, and a configuration with the key's qualifier when it does.
C15_ParseOutcomes ==
    rPc = "done" =>
        /\ OwnKeys = {} => Absent(rResult)
        /\ \A k \in OwnKeys :
            OwnKeys = {k} =>
                IF rAnnotations[k].json # "object" THEN Failed(rResult)
                ELSE Configured(rResult, k)

\* what a parser returns for one key with its feature name
KeyOutcome(r, k) ==
    LET v == rAnnotations[k]
    IN  IF v.json # "object" THEN Failed(r)
        ELSE IF rHandler = "mount-volume" /\ v.volumes = <<>> THEN Absent(r)
        ELSE /\ Configured(r, k)
             /\ rHandler = "mount-volume" => r.config.body.volumes = v.volumes
             /\ Len(r.config.body.containers) = Len(v.containers)
             /\ \A i \in 1..Len(v.containers) :
                    r.config.body.containers[i].name = v.containers[i].name

\* C15: no key with the feature name gives absent; otherwise the result is
\* that of one key with the feature name: an error and no configuration when
\* its value does not deserialize, a configuration with the key's qualifier
\* when it does, except that the mount-volume parser gives absent for a
\* value that declares no volume.
C15_ParseOutcomesPerKey ==
    rPc = "done" =>
        /\ OwnKeys = {} => Absent(rResult)
        /\ OwnKeys # {} => \E k \in OwnKeys : KeyOutcome(rResult, k)

C15_Witness ==
    /\ rPc = "done"
    /\ rHandler = "host-port"
    /\ DOMAIN rAnnotations =
        {QualifiedName(<<"0", "-", "1">>, HostPort), QualifiedName(<<>>, MountVolume)}
    /\ rAnnotations[QualifiedName(<<"0", "-", "1">>, HostPort)] = PortsValue
    /\ rAnnotations[QualifiedName(<<>>, MountVolume)] = Malformed
    /\ rResult.err = "nil"
    /\ rResult.config.qualifier = <<"0", "-", "1">>
    /\ rResult.config.body.containers =
        <<ContainerPortsConfig("web", <<ContainerPort("http", 8080, 30000)>>)>>

(***************************************************************************)
(* Properties of the admission pipeline                                    *)
(***************************************************************************)
\* the pod's only mount-volume annotation declares container mounts and an
\* empty volumes list
OnlyEmptyVolumes ==
    /\ AnnotationKey(MountVolume, <<>>) \in DOMAIN pAnnotations
    /\ pAnnotations[AnnotationKey(MountVolume, <<>>)] = MountValueNoVolumes
    /\ AnnotationKey(MountVolume, <<"0", "-", "1">>) \notin DOMAIN pAnnotations

\* handler.Mutate was called for that handler
Mutated(handler) == \E c \in 1..Len(pCalls) : pCalls[c] = Call("mutate", handler)

Parsed(handler) == \E c \in 1..Len(pCalls) : pCalls[c] = Call("parse", handler)

\* C16: for a mount-volume value with an empty volumes list, per-container
\* mounts or not, the volume parser returns absent, neither an error nor an
\* empty configuration, and the pipeline adds no volume and no mount: the
\* mount handler's Mutate is not called.
C16_EmptyVolumesAbsent ==
    OnlyEmptyVolumes =>
        /\ (pPc = "parse" /\ mHandlers[pIndex] = "mount-volume") =>
                volumeMountParser(pCollected) = {ParseResult(NilConfig, "nil")}
        /\ ~Mutated("mount-volume")
        /\ pErr # "invalid volume mount configuration"
        /\ pSpec.volumes = pOriginal.volumes
        /\ Len(pSpec.containers) = Len(pOriginal.containers)
        /\ \A i \in 1..Len(pOriginal.containers) :
            pSpec.containers[i].volumeMounts = pOriginal.containers[i].volumeMounts

C16_Witness ==
    /\ OnlyEmptyVolumes
    /\ pPc = "mutated"
    /\ mHandlers = RegisteredHandlers
    /\ Parsed("mount-volume")
    /\ Parsed("host-port")
    /\ Len(pOriginal.containers) = 2
    /\ pSpec = pOriginal

\* the parser of the handler can only return absent, or only a configuration
DefinitelyAbsent(handler) == Parse(handler, pCollected) = {ParseResult(NilConfig, "nil")}

DefinitelyConfigured(handler) ==
    \A r \in Parse(handler, pCollected) : r.err = "nil" /\ r.config.type # "nil"

\* the pass over the handlers is over and reported no error
EndedWithoutError ==
    /\ pPc \in {"mutated", "responded"}
    /\ pErr = "nil"
    /\ ~ExtractionFails

\* C17: a handler whose parser returns absent is not applied and does not
\* end the pass: when the pass is over without an error every registered
\* handler has been parsed, and every handler whose configuration is
\* present has been applied.
C17_AbsentContinues ==
    /\ \A i \in 1..Len(mHandlers) :
        (Parsed(mHandlers[i]) /\ DefinitelyAbsent(mHandlers[i])) => ~Mutated(mHandlers[i])
    /\ EndedWithoutError =>
        \A i \in 1..Len(mHandlers) :
            /\ Parsed(mHandlers[i])
            /\ DefinitelyConfigured(mHandlers[i]) => Mutated(mHandlers[i])

\* a pod that carries only a host-port annotation has its ports mutated
\* although the mount handler is registered first
C17_Witness ==
    /\ pPc = "mutated"
    /\ mHandlers = RegisteredHandlers
    /\ DOMAIN pAnnotations = {AnnotationKey(HostPort, <<>>)}
    /\ pAnnotations[AnnotationKey(HostPort, <<>>)] = PortsValue
    /\ pCalls = <<Call("parse", "mount-volume"), Call("parse", "host-port"),
                  Call("mutate", "host-port")>>
    /\ pSpec # pOriginal

\* the place of a handler in the registration order
Position(handler) == CHOOSE i \in 1..Len(mHandlers) : mHandlers[i] = handler

\* the pod specs the handlers before number i may have left, applied in
\* registration order to the pod spec as it arrived
RECURSIVE AppliedBefore(_)
AppliedBefore(i) ==
    IF i <= 1 THEN {pOriginal}
    ELSE UNION {
            UNION {IF r.err # "nil" THEN {}
                   ELSE IF r.config.type = "nil" THEN {spec}
                   ELSE {m.spec : m \in {m \in Mutate(mHandlers[i - 1], spec, pOrdinal, r.config) :
                                            m.err = "nil"}} :
                   r \in Parse(mHandlers[i - 1], pCollected)} :
            spec \in AppliedBefore(i - 1)}

\* C18: the calls follow the registration order, the parser of a handler
\* before its Mutate; a parse or Mutate error ends the pass at that call in
\* the failed state, no later handler being parsed or applied, and the pod
\* keeps what the earlier handlers of the pass did to it.
C18_StopAtFirstError ==
    /\ \A a, b \in 1..Len(pCalls) :
        a < b =>
            /\ Position(pCalls[a].handler) <= Position(pCalls[b].handler)
            /\ pCalls[a].handler = pCalls[b].handler =>
                (pCalls[a].op = "parse" /\ pCalls[b].op = "mutate")
    /\ pPc = "failed" =>
        /\ pErr # "nil"
        /\ pCalls # <<>>
        /\ pCalls[Len(pCalls)].handler = mHandlers[pIndex]
        /\ \A i \in 1..Len(mHandlers) : i > pIndex => ~Parsed(mHandlers[i])
        /\ \A i \in 1..Len(mHandlers) : i < pIndex => Parsed(mHandlers[i])
        /\ pCalls[Len(pCalls)].op = "parse" => pSpec \in AppliedBefore(pIndex)
    /\ pErr # "nil" => pPc \in {"failed", "responded"}

\* the mount handler's volume stays on the pod when the host-port value
\* registered after it does not parse
C18_Witness ==
    /\ pPc = "failed"
    /\ mHandlers = RegisteredHandlers
    /\ DOMAIN pAnnotations = {AnnotationKey(MountVolume, <<>>), AnnotationKey(HostPort, <<>>)}
    /\ pAnnotations[AnnotationKey(MountVolume, <<>>)] = MountValue
    /\ pAnnotations[AnnotationKey(HostPort, <<>>)] = Malformed
    /\ pOrdinal = 1
    /\ pCalls = <<Call("parse", "mount-volume"), Call("mutate", "mount-volume"),
                  Call("parse", "host-port")>>
    /\ pErr = "failed to parse port configuration"
    /\ pSpec.volumes = pOriginal.volumes \o <<Volume("v1", Ref("cfg-1"), NilRef)>>

\* the pod spec that an admission response admits: the request's own with
\* Allowed and no patch, the mutated one with a patch
Admitted == IF pResponse = "patch" THEN pSpec ELSE pOriginal

\* C19 for PodMutator.Default, which answers through its return value: a
\* failed pass returns no error, so that the request is allowed, and leaves
\* the pod as it arrived.
C19_DefaultFailureAllowed ==
    pPc = "failed" => (pErr = "nil" /\ pSpec = pOriginal)

\* C19 for PodArgumentor.Handle, which builds the response: after a parse or
\* Mutate error the response is Allowed with no patch, so the admitted pod is
\* the one of the request, whatever the earlier handlers did to the decoded
\* pod; a patch is answered only by a pass without error.
C19_HandleFailureAllowed ==
    pPc = "responded" =>
        /\ pResponse \in {"allowed", "patch"}
        /\ pErr # "nil" => (pResponse = "allowed" /\ Admitted = pOriginal)

C19_HandleWitness ==
    /\ pPc = "responded"
    /\ pErr # "nil"
    /\ pResponse = "allowed"
    /\ pSpec # pOriginal

\* the key names a feature of a registered handler: the reserved prefix and
\* the feature name, alone or followed by "_" and a qualifier without "_"
IsFeatureKey(k) ==
    \E f \in {HostPort, MountVolume} :
        LET head == <<"s", "p", "o", "d", "i", "t", "o", "r", ".", "i", "o", "/">> \o f
        IN  \/ k = head
            \/ /\ Len(k) > Len(head)
               /\ SubSeq(k, 1, Len(head) + 1) = head \o <<"_">>
               /\ \A j \in (Len(head) + 2)..Len(k) : k[j] # "_"

\* C20: a StatefulSet pod none of whose annotation keys names a registered
\* handler's feature (no annotations, keys without the prefix, prefixed keys
\* of an unknown feature) goes through the pipeline with its pod spec
\* unchanged and no error: every handler is parsed and none is applied.
C20_UnrecognizedPassThrough ==
    (~ExtractionFails /\ \A k \in DOMAIN pAnnotations : ~IsFeatureKey(k)) =>
        /\ pSpec = pOriginal
        /\ pErr = "nil"
        /\ pPc # "failed"
        /\ \A i \in 1..Len(mHandlers) : ~Mutated(mHandlers[i])
        /\ pPc = "mutated" => \A i \in 1..Len(mHandlers) : Parsed(mHandlers[i])

C20_Witness ==
    /\ pPc = "mutated"
    /\ pLabels = PodNameLabel(<<"w", "-", "1">>)
    /\ DOMAIN pAnnotations = {AnnotationKey(<<"x">>, <<>>), HostPort}
    /\ mHandlers = RegisteredHandlers
    /\ pCalls = <<Call("parse", "mount-volume"), Call("parse", "host-port")>>
    /\ Len(pOriginal.containers) = 2
    /\ pSpec = pOriginal

(***************************************************************************)
(* Properties of a parser called twice                                     *)
(***************************************************************************)
\* the step that is the second call of the parser on the same mapping
SecondParse == rPc = "done" /\ rPc' = "again"

\* C21 as stated: the second call of a parser on the same mapping returns
\* what the first call returned, whatever the mapping holds.
C21_ParseRepeatable == [][SecondParse => rResult' = rResult]_vars

\* C21: the second call of a parser on the same mapping returns what the
\* first call returned when the mapping holds at most one entry with the
\* parser's feature name; with several such entries each call returns the
\* result of one of them and the two calls may differ.
C21_ParseRepeatableOneEntry ==
    [][SecondParse =>
        /\ Cardinality(OwnKeys) <= 1 => rResult' = rResult
        /\ OwnKeys # {} =>
            /\ \E k \in OwnKeys : KeyOutcome(rResult, k)
            /\ \E k \in OwnKeys : KeyOutcome(rResult', k)]_vars

C21_Witness ==
    /\ rPc = "again"
    /\ rHandler = "mount-volume"
    /\ DOMAIN rAnnotations =
        {QualifiedName(<<>>, MountVolume), QualifiedName(<<>>, HostPort)}
    /\ rAnnotations[QualifiedName(<<>>, MountVolume)] = MountValue
    /\ rAnnotations[QualifiedName(<<>>, HostPort)] = Malformed
    /\ rResult.err = "nil"
    /\ rResult.config.body.volumes = <<Volume("v1", Ref("cfg"), NilRef)>>

(***************************************************************************)
(* Properties of Mutate on a configuration of another type                 *)
(***************************************************************************)
\* the configuration type the called handler asserts
OwnType == IF hHandler = "host-port" THEN "portConfig" ELSE "mountConfig"

\* C22: a Mutate whose configuration is not of the handler's own type (nil,
\* or the other handler's configuration) returns the type error and leaves
\* the pod spec as it was, a nil pod spec included.
C22_ForeignConfigRejected ==
    (hPc = "done" /\ hCfg.type # OwnType) =>
        /\ hErr = "unexpected config type"
        /\ hSpec = hPre

C22_Witness ==
    /\ hPc = "done"
    /\ hHandler = "host-port"
    /\ hCfg = NilConfig
    /\ hPre = NilPodSpec
    /\ hSpec = NilPodSpec
    /\ hErr = "unexpected config type"

(***************************************************************************)
(* Properties of the collector: keys that share a qualified name           *)
(***************************************************************************)
HasSeparator(r) == \E p \in 1..Len(r) : r[p] = "_"

\* two remainders of which one has no "_" and the other is the first one
\* followed by "_": both are the feature r with the empty qualifier
Twins(r1, r2) == ~HasSeparator(r1) /\ r2 = r1 \o <<"_">>

HasTwins(annotations) ==
    \E r1, r2 \in Remainders(annotations) : Twins(r1, r2)

\* C30 as stated: distinct keys with the prefix give distinct
\* (feature, qualifier) pairs, the result has one entry for each such key
\* and it is the same whatever the order of the iteration.
C30_CollectLosesNoKey ==
    cPc = "done" =>
        /\ \A r1, r2 \in Remainders(cAnnotations) :
            r1 # r2 => SplitRemainder(r1) # SplitRemainder(r2)
        /\ Cardinality(DOMAIN cResult) = Cardinality(Remainders(cAnnotations))
        /\ Collect(cAnnotations) = {cResult}

\* C30: distinct keys with the prefix give distinct (feature, qualifier)
\* pairs unless one is a remainder without "_" and the other is the same
\* remainder followed by "_".  Without such a pair of keys the result has
\* one entry for each key with the prefix and does not depend on the order
\* of the iteration; with such a pair the two keys share one entry, which has
\* the value of either key.
C30_CollectLosesOnlyTwins ==
    cPc = "done" =>
        /\ \A r1, r2 \in Remainders(cAnnotations) :
            (r1 # r2 /\ SplitRemainder(r1) = SplitRemainder(r2))
                => (Twins(r1, r2) \/ Twins(r2, r1))
        /\ ~HasTwins(cAnnotations) =>
            /\ Cardinality(DOMAIN cResult) = Cardinality(Remainders(cAnnotations))
            /\ Collect(cAnnotations) = {cResult}
        /\ \A r1, r2 \in Remainders(cAnnotations) :
            Twins(r1, r2) =>
                /\ Cardinality(DOMAIN cResult) < Cardinality(Remainders(cAnnotations))
                /\ cResult[QualifiedName(<<>>, r1)]
                        \in {cAnnotations[Prefix \o r1], cAnnotations[Prefix \o r2]}
                /\ {m[QualifiedName(<<>>, r1)] : m \in Collect(cAnnotations)}
                        = {cAnnotations[Prefix \o r1], cAnnotations[Prefix \o r2]}

C30_Witness ==
    /\ cPc = "done"
    /\ DOMAIN cAnnotations = {Prefix \o <<"x">>, Prefix \o <<"x", "_">>}
    /\ cAnnotations[Prefix \o <<"x">>] = "v1"
    /\ cAnnotations[Prefix \o <<"x", "_">>] = "v2"
    /\ DOMAIN cResult = {QualifiedName(<<>>, <<"x">>)}
    /\ cResult[QualifiedName(<<>>, <<"x">>)] = "v1"

(***************************************************************************)
(* Properties of the host-port handler: port variables and ports agree     *)
(***************************************************************************)
\* C29: after the host-port Mutate with a matching qualifier, in every
\* container the configuration names and for every declared port name with
\* hostPort > 0, the variable PORT_<name> holds the decimal numeral of the
\* hostPort of the container's first port of that name.
C29_PortVariableIsHostPort ==
    HostPortApplied =>
        \A i \in 1..Len(hSpec.containers) :
            LET post == hSpec.containers[i]
            IN  \A n \in NamesOf(RequestedPorts(hCfg.body.containers, post.name)) :
                    /\ n \in NamesOf(post.ports)
                    /\ ("PORT_" \o n) \in EnvNames(post.env)
                    /\ EnvValue(post.env, "PORT_" \o n)
                            = Decimal(FirstNamed(post.ports, n).hostPort)

C29_Witness ==
    /\ HostPortApplied
    /\ hOrdinal = 1
    /\ Len(hPre.containers) = 1
    /\ hPre.containers[1].env = <<EnvVar("A", "1"), EnvVar("PORT_http", "stale")>>
    /\ hPre.containers[1].ports = <<ContainerPort("http", 80, 7), ContainerPort("http", 81, 8)>>
    /\ hCfg.body.containers =
        <<ContainerPortsConfig("web",
            <<ContainerPort("http", 8080, 30000), ContainerPort("http", 8080, 30010)>>)>>
    /\ hSpec.containers[1].ports =
        <<ContainerPort("http", 80, 30011), ContainerPort("http", 81, 8)>>
    /\ EnvValue(hSpec.containers[1].env, "PORT_http") = "30011"

(***************************************************************************)
(* Properties of a handler's Mutate called again                           *)
(***************************************************************************)
\* n copies of a sequence, one after the other
RECURSIVE Repeat(_, _)
Repeat(seq, n) == IF n = 0 THEN <<>> ELSE seq \o Repeat(seq, n - 1)

\* the mount-volume Mutate has run hCalls times on the pod spec, with a
\* configuration of its own whose qualifier matches the ordinal
MountRepeated ==
    /\ hPc \in {"done", "doneNext"}
    /\ hHandler = "mount-volume"
    /\ hCfgPre.type = "mountConfig"
    /\ ~hCfgPre.body.nil
    /\ ~hPre.nil
    /\ InScope(hOrdinal, hCfgPre.qualifier)

\* a declared volume with "-<ordinal>" after the names it references
Suffixed(v, ordinal) ==
    [v EXCEPT
        !.configMap = IF @.set THEN Ref(@.name \o DashOrdinal(ordinal)) ELSE @,
        !.secret    = IF @.set THEN Ref(@.name \o DashOrdinal(ordinal)) ELSE @]

\* the mounts a configuration declares for a container name, in order
MountsFor(cfg, name) ==
    Flatten([k \in 1..Len(cfg.body.containers) |->
                IF cfg.body.containers[k].name = name
                THEN cfg.body.containers[k].volumeMounts ELSE <<>>])

\* C24: after n calls of the mount-volume Mutate on the same pod spec with
\* the same matching configuration, the pod's volumes are its own followed
\* by n copies of the declared volumes, and the mounts of every container
\* are its own followed by n copies of the mounts declared for its name.
C24_MountMutateAccumulates ==
    MountRepeated =>
        LET declared == hCfgPre.body.volumes
            once     == [k \in 1..Len(declared) |-> Suffixed(declared[k], hOrdinal)]
        IN  /\ hErr = "nil"
            /\ hCalls >= 1
            /\ hSpec.volumes = hPre.volumes \o Repeat(once, hCalls)
            /\ Len(hSpec.containers) = Len(hPre.containers)
            /\ \A i \in 1..Len(hPre.containers) :
                hSpec.containers[i] =
                    [hPre.containers[i] EXCEPT !.volumeMounts =
                        @ \o Repeat(MountsFor(hCfgPre, hPre.containers[i].name), hCalls)]

C24_Witness ==
    /\ MountRepeated
    /\ hPc = "done"
    /\ hCalls = 2
    /\ hOrdinal = 1
    /\ hCfgPre.body.volumes = <<Volume("v1", Ref("cfg"), NilRef)>>
    /\ Len(hCfgPre.body.containers) = 1
    /\ hCfgPre.body.containers[1] =
        [name |-> "web", volumeMounts |-> <<VolumeMount("v1", "/etc/v1")>>]
    /\ hPre = PodSpec(<<Container("web", <<>>, <<>>, <<>>)>>, <<>>)
    /\ hSpec.volumes =
        <<Volume("v1", Ref("cfg-1"), NilRef), Volume("v1", Ref("cfg-1"), NilRef)>>
    /\ hSpec.containers[1].volumeMounts =
        <<VolumeMount("v1", "/etc/v1"), VolumeMount("v1", "/etc/v1")>>

\* the first call of Mutate on the pod of another ordinal has returned
SecondPodDone == hPc = "doneNext" /\ hCalls = 1 /\ ~hPre.nil

\* C25: a Mutate call of either handler leaves its configuration as it was
\* given (qualifier, declared volumes with the names they reference,
\* declared mounts, declared ports with their host ports), so the call on
\* the pod of another ordinal gives volume references and host ports made of
\* the declared values and that ordinal.
C25_ConfigUnchanged ==
    /\ hCfg = hCfgPre
    /\ (SecondPodDone /\ MountRepeated) =>
        hSpec.volumes = hPre.volumes \o
            [k \in 1..Len(hCfgPre.body.volumes) |->
                Suffixed(hCfgPre.body.volumes[k], hOrdinal)]
    /\ (SecondPodDone /\ hHandler = "host-port" /\ hCfgPre.type = "portConfig"
            /\ ~hCfgPre.body.nil /\ InScope(hOrdinal, hCfgPre.qualifier)) =>
        \A i \in 1..Len(hSpec.containers) :
            LET post    == hSpec.containers[i]
                entries == RequestedPorts(hCfgPre.body.containers, post.name)
            IN  \A n \in NamesOf(entries) :
                    FirstNamed(post.ports, n).hostPort
                        = LastNamed(entries, n).hostPort + hOrdinal

C25_Witness ==
    /\ SecondPodDone
    /\ MountRepeated
    /\ hOrdinal = 2
    /\ hCfg = hCfgPre
    /\ hCfg.body.volumes =
        <<Volume("v4", Ref("cfg"), Ref("sec")), Volume("v2", NilRef, Ref("sec"))>>
    /\ hPre.volumes = <<>>
    /\ hSpec.volumes =
        <<Volume("v4", Ref("cfg-2"), Ref("sec-2")), Volume("v2", NilRef, Ref("sec-2"))>>

\* the step that is a further call of the host-port Mutate on the pod spec
\* its last call left, with the same ordinal and configuration
HostPortMutateRepeats ==
    /\ hHandler = "host-port"
    /\ hCalls >= 1
    /\ hCalls' = hCalls + 1

\* C28: a further call of the host-port Mutate with the same ordinal and
\* configuration leaves the pod spec as the call before left it: no port
\* and no environment variable is added and no value changes.
C28_HostPortMutateIdempotent ==
    [][HostPortMutateRepeats => (hSpec' = hSpec /\ hErr' = hErr)]_vars

C28_Witness ==
    /\ hPc = "done"
    /\ hHandler = "host-port"
    /\ hCalls = 2
    /\ hOrdinal = 1
    /\ hErr = "nil"
    /\ hCfg.type = "portConfig"
    /\ hCfg.qualifier = <<>>
    /\ hCfg.body.containers =
        <<ContainerPortsConfig("web",
            <<ContainerPort("rpc", 9090, 30000), ContainerPort("http", 8080, 30010)>>)>>
    /\ hPre = PodSpec(<<Container("web", <<>>, <<>>, <<>>)>>, <<>>)
    /\ hSpec.containers[1].ports =
        <<ContainerPort("rpc", 9090, 30001), ContainerPort("http", 8080, 30011)>>
    /\ Len(hSpec.containers[1].env) = 3

(***************************************************************************)
(* Properties of the pipeline: runs on the same pod, handler orders        *)
(***************************************************************************)
\* the call of Default has returned
Ended == pPc \in {"notStatefulSet", "mutated", "failed"}

\* what the runs of Default on this pod with this mutator may leave
RunsOfThisPod ==
    DefaultOutcomes(mSsPodId, mHandlers, pLabels, pAnnotations, pOriginal)

\* every ended run is one of the runs of the function of its inputs
RunIsOutcome == Ended => MutateResult(pSpec, pErr) \in RunsOfThisPod

\* C23: for a fixed pod and a fixed handler list every run of the pipeline
\* ends with the same pod spec, the order of the added ports, environment
\* variables, volumes and mounts included: the pod spec this run left is the
\* only one a run on this pod can leave.
C23_PipelineDeterministic ==
    Ended => {o.spec : o \in RunsOfThisPod} = {pSpec}

\* the same for pods that carry at most one annotation, where no parser
\* has a choice of keys
C23_DeterministicOneKeyPerFeature ==
    (Ended /\ Cardinality(DOMAIN pAnnotations) <= 1) =>
        {o.spec : o \in RunsOfThisPod} = {pSpec}

\* the handler list in the opposite order
OtherOrder == [i \in 1..Len(mHandlers) |-> mHandlers[Len(mHandlers) + 1 - i]]

\* what the runs of Default on this pod may leave with the handlers
\* registered in the opposite order
RunsInOtherOrder ==
    DefaultOutcomes(mSsPodId, OtherOrder, pLabels, pAnnotations, pOriginal)

\* C26 as stated: for every pod and annotation set the pipeline leaves the
\* pod spec in the same state with [volume, host-port] as with
\* [host-port, volume].
C26_OrderImmaterial ==
    Ended =>
        /\ pSpec \in {o.spec : o \in RunsInOtherOrder}
        /\ {o.spec : o \in RunsOfThisPod} = {o.spec : o \in RunsInOtherOrder}

\* C26: the runs that end without an error leave the same pod specs with
\* either order of the two handlers, and a pod on which a run can end with
\* an error in one order can do so in the other; the pod spec a failed run
\* leaves (the mutations of the handlers before the failing one) is not
\* part of the statement.
C26_OrderImmaterialWithoutError ==
    /\ RunIsOutcome
    /\ Ended =>
        {o.spec : o \in {r \in RunsOfThisPod : r.err = "nil"}}
            = {o.spec : o \in {r \in RunsInOtherOrder : r.err = "nil"}}
    /\ pPc \in {"notStatefulSet", "mutated"} =>
        MutateResult(pSpec, "nil") \in RunsInOtherOrder
    /\ Ended =>
        ((\E o \in RunsOfThisPod : o.err # "nil")
            <=> (\E o \in RunsInOtherOrder : o.err # "nil"))

C26_Witness ==
    /\ pPc = "mutated"
    /\ mHandlers = <<"host-port", "mount-volume">>
    /\ pCalls = <<Call("parse", "host-port"), Call("mutate", "host-port"),
                  Call("parse", "mount-volume"), Call("mutate", "mount-volume")>>
    /\ Len(pSpec.volumes) = Len(pOriginal.volumes) + 1
    /\ pSpec.containers[1].volumeMounts = <<VolumeMount("v1", "/etc/v1")>>
    /\ Len(pSpec.containers[1].env) = 2
    /\ MutateResult(pSpec, "nil") \in RunsInOtherOrder

\* what the call of Handle for the pod of request r answers when the
\* request is served alone, with the handlers it read: the pod spec, the
\* error of applyHandlers and the response
HandleOutcomes(r) ==
    LET q  == requests[r]
        id == Extract(mSsPodId, q.labels)
    IN  IF id.err # "nil"
        THEN {[spec |-> q.original, err |-> "nil", response |-> "allowed"]}
        ELSE {[spec |-> m.spec, err |-> m.err,
               response |-> IF m.err # "nil" THEN "allowed" ELSE "patch"] :
                m \in UNION {HandlersFrom(q.handlers, 1, collected, q.original, id.ordinal) :
                                collected \in Collect(q.annotations)}}

\* request r took a step
RequestTookStep(r) == requests'[r] # requests[r]

\* C27: when requests for different pods are served with their steps
\* interleaved in any order, a step of a request leaves the registered
\* handlers and every other request as they are, and the request is answered
\* with a pod spec, an error and a response that Handle can answer with when
\* the request is served alone
C27_RequestsDoNotInterfere ==
    [][\A r \in Requests : RequestTookStep(r) =>
            /\ mHandlers' = mHandlers
            /\ \A q \in Requests \ {r} : requests'[q] = requests[q]
            /\ requests'[r].pc = "responded" =>
                    [spec |-> requests'[r].spec, err |-> requests'[r].err,
                     response |-> requests'[r].response] \in HandleOutcomes(r)]_vars

\* two calls are under way at the same time: request b read the handlers
\* when one was registered and is about to apply it, request a read them
\* later, when two were registered, and has applied them to its pod
C27_Witness ==
    \E a, b \in Requests :
        /\ a # b
        /\ requests[a].pc = "mutated"
        /\ requests[a].spec # requests[a].original
        /\ Len(requests[a].handlers) = 2
        /\ requests[b].pc = "mutate"
        /\ Len(requests[b].handlers) = 1

====
